---- MODULE Spec2Model ----
(***************************************************************************)
(* Model of the tacit trace decoder: the packet reader, the reconstruction *)
(* engine (trace_decoder), the broadcast bus it feeds, the receiver        *)
(* threads and the joins of main.                                          *)
(***************************************************************************)
EXTENDS Integers, Sequences, FiniteSets, TLC

\* ------------------------------------------------------------------ bounds
\* Ring capacity handed to Bus::new (1024 in the program, scaled down).
BUS_SIZE == 2
\* Number of receivers enabled on the command line (to_txt is always on).
NumReceivers == 2
\* Packets the trace file holds after the first one.
MaxPackets == 2
\* Width of an address word (64 in the program, scaled down).
AddrBits == 5
\* Entries of the branch-predictor table (--bp-entries, 1024 by default).
BpEntries == 2

\* ------------------------------------------------------------- bit helpers
Pow2(n) == 2 ^ n
AddrMod == Pow2(AddrBits)

RECURSIVE Xor(_, _)
Xor(a, b) ==
    IF a = 0 THEN b
    ELSE IF b = 0 THEN a
    ELSE (((a % 2) + (b % 2)) % 2) + 2 * Xor(a \div 2, b \div 2)

Shr1(x) == x \div 2

\* fn refund_addr(addr: u64) -> u64 { addr << 1 }
refund_addr_no_shift(addr) == addr % AddrMod
refund_addr(addr) == (addr * 2) % AddrMod

\* ------------------------------------------------------------ header bytes
C_HEADER_MASK == 3
FHEADER_OFFSET == 2
TRAP_TYPE_OFFSET == 5
VAR_LAST == 128
VAR_OFFSET == 7

\* first_byte & C_HEADER_MASK, through CHeader::from
CHeaderOf(byte) ==
    LET v == byte % (C_HEADER_MASK + 1) IN
    CASE v = 0 -> "CTb" [] v = 1 -> "CNt" [] v = 2 -> "CNa" [] v = 3 -> "CIj"

\* (first_byte & F_HEADER_MASK) >> FHEADER_OFFSET, through FHeader::from
FHeaderOf(byte) ==
    LET v == (byte \div Pow2(FHEADER_OFFSET)) % 8 IN
    CASE v = 0 -> "FTb" [] v = 1 -> "FNt" [] v = 2 -> "FUj" [] v = 3 -> "FIj"
      [] v = 4 -> "FTrap" [] v = 5 -> "FSync" [] v = 6 -> "FVal" [] v = 7 -> "FRes"

\* impl From<CHeader> for FHeader
FHeaderOfCSwapped(c) ==
    CASE c = "CTb" -> "FNt" [] c = "CNt" -> "FTb" [] c = "CIj" -> "FIj"
FHeaderOfC(c) ==
    CASE c = "CTb" -> "FTb" [] c = "CNt" -> "FNt" [] c = "CIj" -> "FIj"

\* (first_byte & TRAP_TYPE_MASK) >> TRAP_TYPE_OFFSET, through TrapType::from,
\* which panics on the values it does not list.
TrapTypeOf(byte) ==
    LET v == (byte \div Pow2(TRAP_TYPE_OFFSET)) % 8 IN
    CASE v = 0 -> "TNone" [] v = 1 -> "TException" [] v = 2 -> "TInterrupt"
      [] v = 4 -> "TReturn" [] OTHER -> "panic"

\* Packet::new()
NewPacket ==
    [is_compressed |-> FALSE, c_header |-> "CNa", f_header |-> "FRes",
     trap_type |-> "TNone", target_address |-> 0, trap_address |-> 0,
     timestamp |-> 0]

\* --------------------------------------------------------------- read_varint
\* Bytes are read up to and including the first one with the high bit set;
\* the value folds the payloads from the last byte to the first.
\* Result: [ok, val, next]; ok = FALSE is read_u8 failing at end of file.
RECURSIVE VarintBytes(_, _)
VarintBytes(bytes, pos) ==
    IF pos > Len(bytes) THEN [ok |-> FALSE, bs |-> <<>>, next |-> pos]
    ELSE IF bytes[pos] >= VAR_LAST
         THEN [ok |-> TRUE, bs |-> <<bytes[pos]>>, next |-> pos + 1]
         ELSE LET r == VarintBytes(bytes, pos + 1) IN
              [ok |-> r.ok, bs |-> <<bytes[pos]>> \o r.bs, next |-> r.next]

FoldVarintFirstByteHigh(bs) ==
    LET F[i \in 0..Len(bs)] ==
            IF i = 0 THEN 0
            ELSE (F[i - 1] * Pow2(VAR_OFFSET)) + (bs[i] % VAR_LAST)
    IN F[Len(bs)]
FoldVarint(bs) ==
    LET F[i \in 0..Len(bs)] ==
            \* F[i]: accumulator after folding bytes Len(bs) down to i+1
            IF i = Len(bs) THEN 0
            ELSE (F[i + 1] * Pow2(VAR_OFFSET)) + (bs[i + 1] % VAR_LAST)
    IN F[0]

read_varint(bytes, pos) ==
    LET r == VarintBytes(bytes, pos) IN
    [ok |-> r.ok, val |-> IF r.ok THEN FoldVarint(r.bs) ELSE 0, next |-> r.next]
\* --------------------------------------------------------------- read_packet
\* One call of read_packet on the bytes the file holds from the read position
\* on.  res: "ok" (a packet), "err" (read_u8 failed: the file ended) or
\* "panic" (TrapType::from on a value it does not list); next: the position
\* after the bytes consumed.
ReadFields(bytes, pos, n) ==
    \* n varints in a row, as the `?` chain reads them
    LET V[i \in 0..n] ==
            IF i = 0 THEN [ok |-> TRUE, vals |-> <<>>, next |-> pos]
            ELSE IF ~V[i - 1].ok THEN V[i - 1]
            ELSE LET r == read_varint(bytes, V[i - 1].next) IN
                 [ok |-> r.ok, vals |-> Append(V[i - 1].vals, r.val), next |-> r.next]
    IN V[n]

read_packet(bytes) ==
    IF Len(bytes) = 0 THEN [res |-> "err", pkt |-> NewPacket, next |-> 1]
    ELSE
    LET first_byte == bytes[1]
        c_header == CHeaderOf(first_byte)
        f_header == FHeaderOf(first_byte)
        Err(n) == [res |-> "err", pkt |-> NewPacket, next |-> n]
    IN
    IF c_header # "CNa" THEN
        [res |-> "ok",
         pkt |-> [NewPacket EXCEPT !.timestamp = first_byte \div 4,
                                   !.f_header = FHeaderOfC(c_header),
                                   !.c_header = c_header,
                                   !.is_compressed = TRUE],
         next |-> 2]
    ELSE IF f_header \in {"FTb", "FNt", "FIj"} THEN
        LET r == ReadFields(bytes, 2, 1) IN
        IF ~r.ok THEN Err(r.next)
        ELSE [res |-> "ok",
              pkt |-> [NewPacket EXCEPT !.timestamp = r.vals[1], !.f_header = f_header],
              next |-> r.next]
    ELSE IF f_header = "FUj" THEN
        LET r == ReadFields(bytes, 2, 2) IN
        IF ~r.ok THEN Err(r.next)
        ELSE [res |-> "ok",
              pkt |-> [NewPacket EXCEPT !.target_address = r.vals[1],
                                        !.timestamp = r.vals[2], !.f_header = f_header],
              next |-> r.next]
    ELSE IF f_header = "FSync" THEN
        \* the first varint is the branch mode, read and dropped
        LET r == ReadFields(bytes, 2, 3) IN
        IF ~r.ok THEN Err(r.next)
        ELSE [res |-> "ok",
              pkt |-> [NewPacket EXCEPT !.target_address = r.vals[2],
                                        !.timestamp = r.vals[3], !.f_header = f_header],
              next |-> r.next]
    ELSE IF f_header = "FTrap" THEN
        IF TrapTypeOf(first_byte) = "panic"
        THEN [res |-> "panic", pkt |-> NewPacket, next |-> 2]
        ELSE
        LET r == ReadFields(bytes, 2, 3) IN
        IF ~r.ok THEN Err(r.next)
        ELSE [res |-> "ok",
              pkt |-> [NewPacket EXCEPT !.trap_type = TrapTypeOf(first_byte),
                                        !.trap_address = r.vals[1],
                                        !.target_address = r.vals[2],
                                        !.timestamp = r.vals[3], !.f_header = f_header],
              next |-> r.next]
    ELSE \* FVal, FRes: a message is printed and the default packet returned
        [res |-> "ok", pkt |-> NewPacket, next |-> 2]

\* The two assertions of read_first_packet.
FirstHeaderOkNoFSync(first_byte) == CHeaderOf(first_byte) = "CNa"
FirstHeaderOk(first_byte) ==
    CHeaderOf(first_byte) = "CNa" /\ FHeaderOf(first_byte) = "FSync"

\* read_first_packet: the header byte, then two varints (target_address,
\* timestamp).  "panic" is a failed assertion.
read_first_packet(bytes) ==
    IF Len(bytes) = 0 THEN [res |-> "err", pkt |-> NewPacket, next |-> 1]
    ELSE IF ~FirstHeaderOk(bytes[1]) THEN [res |-> "panic", pkt |-> NewPacket, next |-> 2]
    ELSE LET r == ReadFields(bytes, 2, 2) IN
         IF ~r.ok THEN [res |-> "err", pkt |-> NewPacket, next |-> r.next]
         ELSE [res |-> "ok",
               pkt |-> [NewPacket EXCEPT !.target_address = r.vals[1],
                                         !.timestamp = r.vals[2]],
               next |-> r.next]
\* ------------------------------------------------------------------ the image
BRANCH_OPCODES == {"beq", "bge", "bgeu", "blt", "bltu", "bne", "beqz", "bnez",
                   "bgez", "blez", "bltz", "bgtz", "bgt", "ble", "bgtu", "bleu",
                   "c.beqz", "c.bnez", "c.bltz", "c.bgez"}
IJ_OPCODES == {"jal", "j", "call", "tail", "c.j", "c.jal"}
UJ_OPCODES == {"jalr", "jr", "c.jr", "c.jalr", "ret"}

\* The disassembled .text section: address -> instruction (mnemonic, length,
\* the offset compute_offset reads from the last operand).
Insn(m, l, o) == [mnemonic |-> m, len |-> l, offset |-> o]
insn_map ==
    (0  :> Insn("c.addi", 2, 0))  @@ (2  :> Insn("lw", 4, 0))   @@
    (6  :> Insn("beq", 4, 6))     @@ (10 :> Insn("ret", 2, 0))  @@
    (12 :> Insn("jal", 4, -12))   @@ (16 :> Insn("c.addi", 2, 0)) @@
    (18 :> Insn("c.j", 2, -2))    @@ (20 :> Insn("jalr", 4, 0)) @@
    (24 :> Insn("c.bnez", 2, -4)) @@ (26 :> Insn("addi", 2, 0)) @@
    (28 :> Insn("bne", 4, -4))
HasInsn(a) == a \in DOMAIN insn_map
IsBranch(i) == i.mnemonic \in BRANCH_OPCODES
IsIJ(i) == i.mnemonic \in IJ_OPCODES
IsUJ(i) == i.mnemonic \in UJ_OPCODES
\* (pc as i64 + compute_offset(insn)) as u64
JumpTarget(a, i) == (a + i.offset) % AddrMod

\* ------------------------------------------------------------------ entries
NoTs == -1
\* Entry::new_timed_event / Entry::new_timed_trap
new_timed_event(event, ts, from, to) ==
    [event |-> event, from |-> from, to |-> to, ts |-> ts]
\* Entry::new_insn
new_insn_no_len(a) ==
    [event |-> "None", from |-> a, to |-> a, ts |-> NoTs]
new_insn(a) ==
    [event |-> "None", from |-> a, to |-> a + insn_map[a].len, ts |-> NoTs]
\* Event::from_trap_type
from_trap_type_swapped(tt) ==
    CASE tt = "TException" -> "TrapInterrupt"
      [] tt = "TInterrupt" -> "TrapException"
      [] tt = "TReturn" -> "TrapReturn"
      [] OTHER -> "panic"
from_trap_type(tt) ==
    CASE tt = "TException" -> "TrapException"
      [] tt = "TInterrupt" -> "TrapInterrupt"
      [] tt = "TReturn" -> "TrapReturn"
      [] OTHER -> "panic"
\* A slot of the ring: the entry and its position in the broadcast order.
Slot(e, n) == [e |-> e, seq |-> n]
NoEntry == new_timed_event("Empty", NoTs, 0, 0)

\* ------------------------------------------------------------- trace inputs
\* The bytes a read may find in the trace file.
Varint1(v) == <<VAR_LAST + v>>
HeaderByte(c, f, tt) == c + (4 * f) + (32 * tt)
StartVals == {0, 3, 8, 10, 14}
TargetVals == {0, 6, 19}

FirstChunks ==
    {<<HeaderByte(2, 5, 0)>> \o Varint1(t) \o Varint1(0) : t \in StartVals}
    \cup {<<HeaderByte(2, 5, 0)>> \o Varint1(0) \o Varint1(1)}
    \cup {<<HeaderByte(2, 5, 0), 0, VAR_LAST + 1, VAR_LAST>>}   \* two-byte varint 128
    \cup {<<HeaderByte(0, 0, 0)>>,                                \* not CNa
          <<HeaderByte(2, 4, 1)>> \o Varint1(3) \o Varint1(0)}    \* not FSync
    \cup {<<>>, <<HeaderByte(2, 5, 0)>>, <<HeaderByte(2, 5, 0), VAR_LAST>>}  \* file ends

Chunks ==
    {<<>>}
    \cup {<<HeaderByte(0, 0, 0) + (4 * 2)>>, <<HeaderByte(1, 0, 0)>>, <<HeaderByte(3, 0, 0)>>}
    \cup {<<HeaderByte(2, 0, 0)>> \o Varint1(0), <<HeaderByte(2, 1, 0)>> \o Varint1(1),
          <<HeaderByte(2, 3, 0)>> \o Varint1(1)}
    \cup {<<HeaderByte(2, 2, 0)>> \o Varint1(t) \o Varint1(1) : t \in TargetVals}
    \cup {<<HeaderByte(2, 5, 0)>> \o Varint1(0) \o Varint1(t) \o Varint1(0) : t \in TargetVals}
    \cup {<<HeaderByte(2, 5, 0)>> \o Varint1(0) \o Varint1(3) \o Varint1(1)}
    \cup {<<HeaderByte(2, 4, 1)>> \o Varint1(6) \o Varint1(6) \o Varint1(1),
          <<HeaderByte(2, 4, 2)>> \o Varint1(7) \o Varint1(0) \o Varint1(0),
          <<HeaderByte(2, 4, 4)>> \o Varint1(0) \o Varint1(19) \o Varint1(1),
          <<HeaderByte(2, 4, 0)>> \o Varint1(0) \o Varint1(0) \o Varint1(0)}
    \cup {<<HeaderByte(2, 4, 3)>>, <<HeaderByte(2, 6, 0)>>, <<HeaderByte(2, 7, 0)>>}
    \cup {<<HeaderByte(2, 2, 0)>>, <<HeaderByte(2, 5, 0), VAR_LAST>>}        \* file ends

\* What the reads return on those bytes (each chunk is consumed whole).
FirstReads ==
    {[byte |-> IF Len(c) = 0 THEN -1 ELSE c[1], r |-> read_first_packet(c)] :
        c \in {x \in FirstChunks : \/ read_first_packet(x).res = "panic"
                                   \/ read_first_packet(x).next = Len(x) + 1}}
PacketReads ==
    {read_packet(c) : c \in {x \in Chunks : read_packet(x).next = Len(x) + 1}}

\* ------------------------------------------------------------------- state
Receivers == 1..NumReceivers
Slots == BUS_SIZE + 1
MaxSent == 2 + (5 * MaxPackets)

VARIABLES
    br_mode,        \* args.br_mode through BrMode::from
    enabled,        \* the receivers the command line enables (args.to_*)
    mphase,         \* where main is
    jnext,          \* main: index of the next receiver handle to join
    joined,         \* threads main has joined (0: the frontend)
    attached,       \* receivers that hold a BusReader (add_rx)
    ring, tail,     \* the bus: its slots, the number of entries broadcast
    rx_head,        \* per reader: the number of entries it has taken
    rstate,         \* per receiver thread: unspawned, running, done, panicked
    last_rx,        \* per receiver: the slot its last try_recv returned
    ephase,         \* where trace_decoder is
    pc, timestamp,  \* trace_decoder's pc and timestamp
    wpc,            \* the pc local to step_bb / step_bb_until
    packet,         \* the packet being handled
    packet_count,
    target_pc,      \* step_bb_until's target
    loop_left,      \* iterations left of the predicted-hit loop
    bp_counter,     \* BpDoubleSaturatingCounter.counters
    first_byte,     \* the byte read_first_packet read (-1: none)
    first_packet,   \* the packet read_first_packet returned
    call,           \* a function applied on its own: its name and arguments
    ret,            \* what that application returned
    partial,        \* bytes of an unfinished packet the read that met the end
                    \* of the file had consumed
    arcs,           \* branch entries broadcast so far for the packet in hand
    sent,           \* entries other than None broadcast since the last packet
                    \* was read
    unwinder,       \* a receiver's StackUnwinder
    consumer,       \* the stack-keeping receiver followed on its own
    call_stack,     \* StackTxtReceiver / AtomicReceiver: call_stack
    profile_entries,             \* SpeedscopeReceiver: profile_entries
    profile_start, profile_end,  \* SpeedscopeReceiver: start, end
    cstate,         \* that receiver: receiving, flushed or panicked
    received        \* entries it has received

busVars == <<ring, tail, sent>>
engVars == <<ephase, pc, timestamp, wpc, packet, packet_count, target_pc, loop_left,
             bp_counter, first_byte, first_packet>>
rcvVars == <<rx_head, rstate, last_rx>>
mainVars == <<mphase, jnext, joined, attached>>
fnVars == <<call, ret>>
obsVars == <<partial, arcs>>
consVars == <<consumer, call_stack, profile_entries, profile_start, profile_end, cstate,
              received>>
vars == <<br_mode, enabled, mainVars, busVars, rcvVars, engVars, fnVars, obsVars, unwinder,
          consVars>>

\* ------------------------------------------------------- branch predictor
StrongNotTaken == 0
WeakNotTaken == 1
WeakTaken == 2
StrongTaken == 3
_increment(st) == IF st = StrongTaken THEN StrongTaken ELSE st + 1
_decrement(st) == IF st = StrongNotTaken THEN StrongNotTaken ELSE st - 1
judge(st) == st \in {WeakTaken, StrongTaken}
BpIndexNoShift(a) == a % BpEntries
BpIndex(a) == Shr1(a) % BpEntries
\* BpDoubleSaturatingCounter::predict: the prediction before the update ...
PredictionFlipped(ctrs, a) == ~judge(ctrs[BpIndex(a)])
Prediction(ctrs, a) == judge(ctrs[BpIndex(a)])
\* ... and the table after it
PredictUpdateIgnoringHit(ctrs, a, hit) ==
    [ctrs EXCEPT ![BpIndex(a)] = IF judge(@) THEN _increment(@) ELSE _decrement(@)]
PredictUpdate(ctrs, a, hit) ==
    LET st == ctrs[BpIndex(a)]
        prediction == judge(st)
    IN [ctrs EXCEPT ![BpIndex(a)] =
            IF hit = FALSE
            THEN (IF prediction THEN _decrement(st) ELSE _increment(st))
            ELSE (IF prediction THEN _increment(st) ELSE _decrement(st))]

\* ------------------------------------------------------------------ the bus
\* Bus::new(BUS_SIZE) allocates BUS_SIZE + 1 slots; broadcast() blocks while a
\* reader that has not left still has BUS_SIZE entries to take.  The bus is
\* dropped when trace_decoder ends, by return or by unwinding.
BusDropped == ephase \in {"ok", "err", "panicked"}
Readers == {c \in attached : rstate[c] # "panicked"}
CanBroadcastNoWait == TRUE
CanBroadcastOffByOne == \A c \in Readers : tail - rx_head[c] <= BUS_SIZE
CanBroadcast == \A c \in Readers : tail - rx_head[c] < BUS_SIZE
Broadcast(e) ==
    /\ CanBroadcast
    /\ tail < MaxSent
    /\ ring' = [ring EXCEPT ![tail % Slots] = Slot(e, tail + 1)]
    /\ tail' = tail + 1
    /\ sent' = IF e.event = "None" THEN sent ELSE sent + 1
\* the entry broadcast last
LastEntry == ring[(tail - 1) % Slots].e

mode_is_predict_only_BrPredict == br_mode = "BrPredict"
mode_is_predict == br_mode \in {"BrPredict", "BrHistory"}
Exited == mphase \in {"ret_ok", "ret_err", "main_panicked"}

\* ------------------------------------------------------- the stack unwinder
\* Most symbols the ELF file lists, and the deepest frame stack followed.
MaxSymbols == 3
MaxDepth == 3

\* The unwinder's own instruction map covers every executable section: the
\* image above and two returns through a register in another section.
InsnInfo(m, op) == [mnemonic |-> m, op_str |-> op]
unwinder_insn_map ==
    [a \in DOMAIN insn_map |->
        InsnInfo(insn_map[a].mnemonic, IF insn_map[a].mnemonic = "ret" THEN "" ELSE "a5")]
    @@ (32 :> InsnInfo("c.jr", "ra")) @@ (34 :> InsnInfo("c.jr", "a5"))

\* SymbolInfo, without the source line and file
SymbolInfo(name, index) == [name |-> name, index |-> index]
\* name.starts_with("$x") and name.trim().is_empty() on the names used
DummyNames == {"$x"}
BlankNames == {"", " "}

\* The symbols an ELF file may list: functions at three addresses of the
\* image, the first under a name, a blank name or no name, the second under a
\* name or none; a $x mapping symbol; a symbol of a section that is not
\* executable; a symbol addr2line finds no location for.
ElfSymbol(a, n, exe, loc) == [addr |-> a, name |-> n, exe |-> exe, loc |-> loc]
ElfSymbols ==
    {ElfSymbol(0, n, TRUE, TRUE) : n \in {"", " ", "f"}}
    \cup {ElfSymbol(12, n, TRUE, TRUE) : n \in {"", "g"}}
    \cup {ElfSymbol(20, "h", TRUE, TRUE)}
    \cup {ElfSymbol(0, "$x", TRUE, TRUE), ElfSymbol(12, "g", FALSE, TRUE),
          ElfSymbol(20, "h", TRUE, FALSE)}
SymbolInputs == UNION {[1..n -> ElfSymbols] : n \in 0..MaxSymbols}

\* StackUnwinder::new, one turn of the loop over obj_file.symbols():
\* map is func_symbol_map, order its insertion order
AddSymbol(st, sym) ==
    IF ~sym.exe \/ sym.name \in DummyNames \/ ~sym.loc THEN st
    ELSE LET new_info == SymbolInfo(sym.name, st.next_index) IN
         IF sym.addr \in DOMAIN st.map
         THEN IF st.map[sym.addr].name \in BlankNames /\ new_info.name \notin BlankNames
              THEN [st EXCEPT !.map[sym.addr] = new_info]      \* *existing = new_info
              ELSE st                                          \* alias, ignored
         ELSE [map |-> st.map @@ (sym.addr :> new_info),
               order |-> Append(st.order, sym.addr),
               next_index |-> st.next_index + 1]
AddSymbols(syms) ==
    LET S[i \in 0..Len(syms)] ==
            IF i = 0 THEN [map |-> <<>>, order |-> <<>>, next_index |-> 0]
            ELSE AddSymbol(S[i - 1], syms[i])
    IN S[Len(syms)]

\* the address after addr in func_symbol_addr_sorted, the first one after the
\* last
NextAddr(addrs, addr) ==
    LET above == {b \in addrs : b > addr} IN
    IF above = {} THEN CHOOSE b \in addrs : \A c \in addrs : b <= c
    ELSE CHOOSE b \in above : \A c \in above : b <= c
\* idx_2_addr_range.insert(func_info.index, (addr, next_addr)) in the order of
\* func_symbol_map; a later insert under the same index replaces the range
AddrRanges(map, order) ==
    LET R[i \in 0..Len(order)] ==
            IF i = 0 THEN <<>>
            ELSE LET addr == order[i]
                     idx == map[addr].index
                 IN [x \in DOMAIN R[i - 1] \cup {idx} |->
                        IF x = idx THEN <<addr, NextAddr(DOMAIN map, addr)>>
                        ELSE R[i - 1][x]]
    IN R[Len(order)]

StackUnwinder_new(syms) ==
    LET st == AddSymbols(syms) IN
    [func_symbol_map |-> st.map,
     idx_2_addr_range |-> AddrRanges(st.map, st.order),
     frame_stack |-> <<>>]
NoUnwinder == [func_symbol_map |-> <<>>, idx_2_addr_range |-> <<>>, frame_stack |-> <<>>]

\* Results: what the call returned and the unwinder it left.  None is
\* Option::None; PanicRet a failed assert or unwrap.
None == [name |-> "None", index |-> -1]
PanicRet == [panicked |-> TRUE]
Panicked(u) == [u |-> u, ret |-> PanicRet]

\* StackUnwinder::step_ij
step_ij_size_before(u, entry) ==
    IF entry.event \notin {"InferrableJump", "TrapException", "TrapInterrupt"}
    THEN Panicked(u)
    ELSE IF entry.to \in DOMAIN u.func_symbol_map
    THEN [u |-> [u EXCEPT !.frame_stack = Append(@, u.func_symbol_map[entry.to].index)],
          ret |-> [success |-> TRUE, frame_stack_size |-> Len(u.frame_stack),
                   symbol_info |-> u.func_symbol_map[entry.to]]]
    ELSE [u |-> u,
          ret |-> [success |-> FALSE, frame_stack_size |-> Len(u.frame_stack),
                   symbol_info |-> None]]
step_ij(u, entry) ==
    IF entry.event \notin {"InferrableJump", "TrapException", "TrapInterrupt"}
    THEN Panicked(u)
    ELSE IF entry.to \in DOMAIN u.func_symbol_map
    THEN LET frame_idx == u.func_symbol_map[entry.to].index
             pushed == Append(u.frame_stack, frame_idx)
         IN [u |-> [u EXCEPT !.frame_stack = pushed],
             ret |-> [success |-> TRUE, frame_stack_size |-> Len(pushed),
                      symbol_info |-> u.func_symbol_map[entry.to]]]
    ELSE [u |-> u,
          ret |-> [success |-> FALSE, frame_stack_size |-> Len(u.frame_stack),
                   symbol_info |-> None]]

\* the result tuple of step_uj
UjResult(success, stack, closed, opened) ==
    [success |-> success, frame_stack_size |-> Len(stack),
     closed_frames |-> closed, opened |-> opened]

\* target_frame_addr >= start && target_frame_addr < end
InFrameRangeClosed(start, end, target) == target >= start /\ target <= end
InFrameRange(start, end, target) == target >= start /\ target < end

\* step_uj's loop: frames are popped until the top one's range holds the
\* target or none is left
RECURSIVE Unwind(_, _, _, _)
Unwind(u, stack, closed_frames, target) ==
    IF stack # <<>>
    THEN LET frame_idx == stack[Len(stack)]
             start == u.idx_2_addr_range[frame_idx][1]
             end == u.idx_2_addr_range[frame_idx][2]
         IN IF InFrameRange(start, end, target)
            THEN [u |-> [u EXCEPT !.frame_stack = stack],
                  ret |-> UjResult(TRUE, stack, closed_frames, None)]
            ELSE Unwind(u, SubSeq(stack, 1, Len(stack) - 1),
                        Append(closed_frames, u.func_symbol_map[start]), target)
    ELSE IF target \in DOMAIN u.func_symbol_map        \* is this a tail call?
         THEN LET pushed == <<u.func_symbol_map[target].index>> IN
              [u |-> [u EXCEPT !.frame_stack = pushed],
               ret |-> UjResult(TRUE, pushed, closed_frames, u.func_symbol_map[target])]
         ELSE [u |-> [u EXCEPT !.frame_stack = <<>>],
               ret |-> UjResult(TRUE, <<>>, closed_frames, None)]

IsReturnOnlyRet(prev_insn) == prev_insn.mnemonic = "ret"
IsReturn(prev_insn) ==
    prev_insn.mnemonic = "ret" \/ (prev_insn.mnemonic = "c.jr" /\ prev_insn.op_str = "ra")

\* StackUnwinder::step_uj
step_uj(u, entry) ==
    IF entry.event \notin {"UninferableJump", "TrapReturn"} THEN Panicked(u)
    ELSE IF entry.from \notin DOMAIN unwinder_insn_map THEN Panicked(u)   \* unwrap
    ELSE IF u.frame_stack = <<>>
    THEN [u |-> u, ret |-> UjResult(FALSE, <<>>, <<>>, None)]
    ELSE IF IsReturn(unwinder_insn_map[entry.from])
    THEN Unwind(u, u.frame_stack, <<>>, entry.to)
    ELSE [u |-> u, ret |-> UjResult(FALSE, u.frame_stack, <<>>, None)]   \* not a return

\* StackUnwinder::flush
RECURSIVE FlushFrames(_, _)
FlushFrames(u, stack) ==
    IF stack = <<>> THEN <<>>
    ELSE <<u.func_symbol_map[u.idx_2_addr_range[stack[Len(stack)]][1]]>>
         \o FlushFrames(u, SubSeq(stack, 1, Len(stack) - 1))
flush_keeping_stack(u) ==
    [u |-> u, ret |-> [closed_frames |-> FlushFrames(u, u.frame_stack)]]
flush(u) ==
    [u |-> [u EXCEPT !.frame_stack = <<>>],
     ret |-> [closed_frames |-> FlushFrames(u, u.frame_stack)]]

NoCall == [fn |-> "none"]

\* no receiver is followed on its own
NoConsumer ==
    /\ consumer = "none" /\ cstate = "receiving" /\ received = 0
    /\ call_stack = <<>> /\ profile_entries = <<>>
    /\ profile_start = 0 /\ profile_end = 0

\* to_txt defaults to true and cannot be switched off: receiver 1 is always on
Init ==
    /\ br_mode \in {"BrTarget", "BrHistory", "BrPredict", "BrReserved"}
    /\ enabled \in {S \in SUBSET Receivers : 1 \in S}
    /\ mphase = "attach" /\ jnext = 1 /\ joined = {} /\ attached = {}
    /\ ring = [i \in 0..(Slots - 1) |-> Slot(NoEntry, 0)] /\ tail = 0
    /\ rx_head = [c \in Receivers |-> 0]
    /\ rstate = [c \in Receivers |-> "unspawned"]
    /\ last_rx = [c \in Receivers |-> Slot(NoEntry, 0)]
    /\ ephase = "unspawned" /\ pc = 0 /\ timestamp = 0 /\ wpc = 0
    /\ packet = NewPacket /\ packet_count = 0 /\ target_pc = 0 /\ loop_left = 0
    /\ bp_counter = [i \in 0..(BpEntries - 1) |-> WeakNotTaken]
    /\ first_byte = -1 /\ first_packet = NewPacket
    /\ call = NoCall /\ ret = NoCall
    /\ partial = 0 /\ arcs = 0 /\ sent = 0
    /\ unwinder = NoUnwinder
    /\ NoConsumer

\* ------------------------------------------------------------------- main
\* bus.add_rx() for each enabled receiver, in the order main pushes them
AddRx ==
    /\ mphase = "attach"
    /\ attached # enabled
    /\ LET c == CHOOSE x \in enabled \ attached :
                    \A y \in enabled \ attached : x <= y
       IN attached' = attached \cup {c}
    /\ UNCHANGED <<consVars, unwinder, call, ret, partial, arcs, br_mode, enabled, mphase, jnext, joined, busVars, rcvVars, engVars>>

\* thread::spawn of the frontend and of every receiver
SpawnThreadsEarly ==
    /\ mphase = "attach"
    /\ mphase' = "join_frontend"
    /\ ephase' = "first"
    /\ rstate' = [c \in Receivers |-> IF c \in enabled THEN "running" ELSE "unspawned"]
    /\ UNCHANGED <<consVars, unwinder, call, ret, partial, arcs, br_mode, enabled, jnext, joined, attached, busVars, rx_head, last_rx,
                   pc, timestamp, wpc, packet, packet_count, target_pc, loop_left,
                   bp_counter, first_byte, first_packet>>
SpawnThreads ==
    /\ mphase = "attach"
    /\ attached = enabled
    /\ mphase' = "join_frontend"
    /\ ephase' = "first"
    /\ rstate' = [c \in Receivers |-> IF c \in enabled THEN "running" ELSE "unspawned"]
    /\ UNCHANGED <<consVars, unwinder, call, ret, partial, arcs, br_mode, enabled, jnext, joined, attached, busVars, rx_head, last_rx,
                   pc, timestamp, wpc, packet, packet_count, target_pc, loop_left,
                   bp_counter, first_byte, first_packet>>

\* receiver_handles, in the order the receivers were pushed
NumHandles == Cardinality(enabled)
HandleAt(i) == CHOOSE c \in enabled : Cardinality({d \in enabled : d < c}) = i - 1
Threads == {0} \cup enabled

\* frontend_handle.join()
JoinFrontend ==
    /\ mphase = "join_frontend"
    /\ BusDropped
    /\ joined' = joined \cup {0}
    /\ mphase' = CASE ephase = "ok" -> "join_receivers"
                   [] ephase = "err" -> "ret_err"            \* result?
                   [] ephase = "panicked" -> "join_after_panic"
    /\ UNCHANGED <<consVars, unwinder, call, ret, partial, arcs, br_mode, enabled, jnext, attached, busVars, rcvVars, engVars>>

\* for handle in receiver_handles { handle.join().unwrap(); }, then return Err
JoinAfterPanic ==
    /\ mphase = "join_after_panic"
    /\ IF jnext > NumHandles
       THEN mphase' = "ret_err" /\ UNCHANGED <<jnext, joined>>
       ELSE LET h == HandleAt(jnext) IN
            /\ rstate[h] \in {"done", "panicked"}
            /\ joined' = joined \cup {h}
            /\ jnext' = jnext + 1
            /\ mphase' = IF rstate[h] = "panicked" THEN "main_panicked" ELSE mphase
    /\ UNCHANGED <<consVars, unwinder, call, ret, partial, arcs, br_mode, enabled, attached, busVars, rcvVars, engVars>>

\* for (i, handle) in ... { if let Err(e) = handle.join() { return Err } } Ok(())
JoinReceivers ==
    /\ mphase = "join_receivers"
    /\ IF jnext > NumHandles
       THEN mphase' = "ret_ok" /\ UNCHANGED <<jnext, joined>>
       ELSE LET h == HandleAt(jnext) IN
            /\ rstate[h] \in {"done", "panicked"}
            /\ joined' = joined \cup {h}
            /\ jnext' = jnext + 1
            /\ mphase' = IF rstate[h] = "panicked" THEN "ret_err" ELSE mphase
    /\ UNCHANGED <<consVars, unwinder, call, ret, partial, arcs, br_mode, enabled, attached, busVars, rcvVars, engVars>>

\* ---------------------------------------------------------------- receivers
\* try_receive_loop: take the next entry and hand it to _receive_entry, which
\* may panic (an unwrap on a failed write, an unwinder failure); the panic
\* drops the receiver and its BusReader
Receive(c) ==
    /\ ~Exited
    /\ rstate[c] = "running"
    /\ rx_head[c] < tail
    /\ \E fails \in BOOLEAN :
          IF fails
          THEN \* the thread unwinds: its reader and what it held are gone
               /\ rstate' = [rstate EXCEPT ![c] = "panicked"]
               /\ rx_head' = [rx_head EXCEPT ![c] = 0]
               /\ last_rx' = [last_rx EXCEPT ![c] = Slot(NoEntry, 0)]
          ELSE /\ rx_head' = [rx_head EXCEPT ![c] = @ + 1]
               /\ last_rx' = [last_rx EXCEPT ![c] = ring[rx_head[c] % Slots]]
               /\ UNCHANGED rstate
    /\ UNCHANGED <<consVars, unwinder, call, ret, partial, arcs, br_mode, enabled, mainVars, busVars, engVars>>

\* try_receive_loop: the bus is closed and drained; _flush and return
ObserveClosed(c) ==
    /\ ~Exited
    /\ rstate[c] = "running"
    /\ rx_head[c] = tail
    /\ BusDropped
    /\ rstate' = [rstate EXCEPT ![c] = "done"]
    /\ UNCHANGED <<consVars, unwinder, call, ret, partial, arcs, br_mode, enabled, mainVars, busVars, rx_head, last_rx, engVars>>
\* ------------------------------------------------------------ trace_decoder
\* read_first_packet, pc and timestamp from it, broadcast Start
ReadFirstPacket ==
    /\ ~Exited
    /\ ephase = "first"
    /\ \E f \in FirstReads :
        /\ first_byte' = f.byte
        /\ first_packet' = f.r.pkt
        /\ partial' = IF f.r.res = "err" THEN f.r.next - 1 ELSE partial
        /\ CASE f.r.res = "panic" ->
                  /\ ephase' = "panicked"
                  /\ UNCHANGED <<pc, timestamp, busVars>>
             [] f.r.res = "err" ->
                  /\ ephase' = "err"
                  /\ UNCHANGED <<pc, timestamp, busVars>>
             [] f.r.res = "ok" ->
                  /\ pc' = refund_addr(f.r.pkt.target_address)
                  /\ timestamp' = f.r.pkt.timestamp
                  /\ Broadcast(new_timed_event("Start", f.r.pkt.timestamp, pc', 0))
                  /\ ephase' = "read"
    /\ UNCHANGED <<consVars, unwinder, call, ret, arcs, br_mode, enabled, mainVars, rcvVars, wpc, packet, packet_count,
                   target_pc, loop_left, bp_counter>>

\* while let Ok(packet) = read_packet(..) { packet_count += 1; ...
ReadPacket ==
    /\ ~Exited
    /\ ephase = "read"
    /\ \E r \in PacketReads :
        /\ packet_count < MaxPackets \/ r.res = "err"
        /\ partial' = IF r.res = "err" THEN r.next - 1 ELSE partial
        /\ CASE r.res = "err" ->          \* the loop ends; drop(bus); Ok(())
                  ephase' = "ok" /\ UNCHANGED <<packet, packet_count, sent>>
             [] r.res = "panic" ->
                  ephase' = "panicked" /\ UNCHANGED <<packet, packet_count, sent>>
             [] r.res = "ok" ->
                  /\ packet' = r.pkt
                  /\ packet_count' = packet_count + 1
                  /\ sent' = 0
                  /\ ephase' = "dispatch"
    /\ UNCHANGED <<consVars, unwinder, call, ret, arcs, br_mode, enabled, mainVars, ring, tail, rcvVars, pc, timestamp, wpc,
                   target_pc, loop_left, bp_counter, first_byte, first_packet>>

\* the if / else-if chain on packet.f_header, up to the call of the walk
Dispatch ==
    /\ ~Exited
    /\ ephase = "dispatch"
    /\ CASE packet.f_header = "FSync" ->
              /\ target_pc' = refund_addr(packet.target_address)
              /\ ephase' = "until" /\ wpc' = pc
              /\ UNCHANGED <<timestamp, loop_left, packet, busVars>>
         [] packet.f_header = "FTrap" ->
              /\ target_pc' = packet.trap_address
              /\ ephase' = "until" /\ wpc' = pc
              /\ UNCHANGED <<timestamp, loop_left, packet, busVars>>
         [] mode_is_predict /\ packet.f_header = "FTb" ->
              /\ Broadcast(new_timed_event("BPHit", packet.timestamp, pc, pc))
              /\ IF packet.timestamp > 0
                 THEN /\ ephase' = "bb" /\ wpc' = pc
                      /\ loop_left' = packet.timestamp
                      /\ UNCHANGED packet
                 ELSE /\ ephase' = "read" /\ packet' = NewPacket
                      /\ UNCHANGED <<wpc, loop_left>>
              /\ UNCHANGED <<timestamp, target_pc>>
         [] mode_is_predict /\ packet.f_header = "FNt" ->
              /\ timestamp' = timestamp + packet.timestamp
              /\ Broadcast(new_timed_event("BPMiss", timestamp', pc, pc))
              /\ ephase' = "bb" /\ wpc' = pc
              /\ UNCHANGED <<loop_left, target_pc, packet>>
         [] OTHER ->
              /\ ephase' = "bb" /\ wpc' = pc
              /\ UNCHANGED <<timestamp, loop_left, target_pc, packet, busVars>>
    /\ UNCHANGED <<consVars, unwinder, call, ret, partial, arcs, br_mode, enabled, mainVars, rcvVars, pc, packet_count,
                   bp_counter, first_byte, first_packet>>

\* Whether step_bb's loop breaks at instruction i
StopsBB(i) ==
    IF br_mode = "BrTarget"
    THEN IsBranch(i) \/ IsIJ(i) \/ IsUJ(i)
    ELSE IsBranch(i) \/ IsUJ(i)
\* step_bb's pc after an instruction it does not stop at
NextBBLinear(a, i) == a + i.len
NextBB(a, i) ==
    IF br_mode # "BrTarget" /\ IsIJ(i) THEN JumpTarget(a, i) ELSE a + i.len

\* one iteration of step_bb's loop; on break the caller's pc takes the result
StepBB ==
    /\ ~Exited
    /\ ephase = "bb"
    /\ IF ~HasInsn(wpc)
       THEN \* insn_map.get(&pc).unwrap()
            ephase' = "panicked" /\ UNCHANGED <<pc, wpc, busVars>>
       ELSE LET insn == insn_map[wpc] IN
            /\ Broadcast(new_insn(wpc))
            /\ IF StopsBB(insn)
               THEN ephase' = "resolve" /\ pc' = wpc /\ wpc' = wpc
               ELSE ephase' = "bb" /\ wpc' = NextBB(wpc, insn) /\ pc' = pc
    /\ UNCHANGED <<consVars, unwinder, call, ret, partial, arcs, br_mode, enabled, mainVars, rcvVars, timestamp, packet, packet_count,
                   target_pc, loop_left, bp_counter, first_byte, first_packet>>

\* Whether step_bb_until's loop breaks at address a, instruction i
StopsUntilAlsoUJ(a, i, target) == IsBranch(i) \/ IsIJ(i) \/ IsUJ(i) \/ a = target
StopsUntil(a, i, target) == IsBranch(i) \/ IsIJ(i) \/ a = target

\* one iteration of step_bb_until's loop
StepBBUntil ==
    /\ ~Exited
    /\ ephase = "until"
    /\ IF ~HasInsn(wpc)
       THEN ephase' = "panicked" /\ UNCHANGED <<pc, wpc, busVars>>
       ELSE LET insn == insn_map[wpc] IN
            /\ Broadcast(new_insn(wpc))
            /\ IF StopsUntil(wpc, insn, target_pc)
               THEN ephase' = "after_until" /\ pc' = wpc /\ wpc' = wpc
               ELSE ephase' = "until" /\ wpc' = wpc + insn.len /\ pc' = pc
    /\ UNCHANGED <<consVars, unwinder, call, ret, partial, arcs, br_mode, enabled, mainVars, rcvVars, timestamp, packet, packet_count,
                   target_pc, loop_left, bp_counter, first_byte, first_packet>>

\* XOR-compressed target of an FUj / FTrap packet
XorTargetNoShift(a, t) == refund_addr(Xor(t, a))
XorTarget(a, t) == refund_addr(Xor(t, Shr1(a)))

\* where trace_decoder goes after End: `break`, then drop(bus) and Ok(())
PhaseAfterEndNoBreak == "read"
PhaseAfterEnd == "ok"

\* after step_bb_until: End and break (FSync), or the trap entry (FTrap)
AfterUntil ==
    /\ ~Exited
    /\ ephase = "after_until"
    /\ IF packet.f_header = "FSync"
       THEN /\ Broadcast(new_timed_event("End", packet.timestamp, pc, 0))
            /\ ephase' = PhaseAfterEnd
            /\ UNCHANGED <<pc, timestamp, packet, target_pc, wpc>>
       ELSE /\ pc' = XorTarget(pc, packet.target_address)
            /\ timestamp' = timestamp + packet.timestamp
            /\ IF from_trap_type(packet.trap_type) = "panic"
               THEN /\ ephase' = "panicked"
                    /\ UNCHANGED <<busVars, packet, target_pc, wpc>>
               ELSE /\ Broadcast(new_timed_event(from_trap_type(packet.trap_type),
                                                 timestamp', packet.trap_address, pc'))
                    /\ ephase' = "read"
                    /\ packet' = NewPacket /\ target_pc' = 0 /\ wpc' = 0
    /\ UNCHANGED <<consVars, unwinder, call, ret, partial, arcs, br_mode, enabled, mainVars, rcvVars, packet_count,
                   loop_left, bp_counter, first_byte, first_packet>>

\* the entry and the new pc of a resolved instruction
TakenTo(a) == JumpTarget(a, insn_map[a])
NotTakenToSkip4(a) == a + 4
NotTakenTo(a) == a + insn_map[a].len
PanicEntryNoPc(a) == new_timed_event("Panic", 0, 0, 0)
PanicEntry(a) == new_timed_event("Panic", 0, a, 0)

\* the instruction step_bb stopped at is resolved against the packet
Resolve ==
    /\ ~Exited
    /\ ephase = "resolve"
    /\ LET insn_to_resolve == insn_map[pc]
           Fail == /\ Broadcast(PanicEntry(pc))
                   /\ ephase' = "panicked"
                   /\ UNCHANGED <<pc, wpc, packet, loop_left, bp_counter, arcs>>
           \* the entry, the new pc, and the end of this packet's handling
           Go(event, ts, new_pc) ==
                   /\ Broadcast(new_timed_event(event, ts, pc, new_pc))
                   /\ pc' = new_pc
                   /\ ephase' = "read"
                   /\ packet' = NewPacket /\ wpc' = 0 /\ arcs' = 0
                   /\ UNCHANGED <<loop_left, bp_counter>>
           \* the same inside the predicted-hit loop
           GoLoop(event, ts, new_pc) ==
                   /\ Broadcast(new_timed_event(event, ts, pc, new_pc))
                   /\ pc' = new_pc
                   /\ bp_counter' = PredictUpdate(bp_counter, pc, TRUE)
                   /\ IF loop_left > 1
                      THEN /\ ephase' = "bb" /\ wpc' = new_pc /\ arcs' = arcs + 1
                           /\ loop_left' = loop_left - 1 /\ UNCHANGED packet
                      ELSE /\ ephase' = "read" /\ wpc' = 0 /\ arcs' = 0
                           /\ loop_left' = 0 /\ packet' = NewPacket
           GoMiss(event, ts, new_pc) ==
                   /\ Broadcast(new_timed_event(event, ts, pc, new_pc))
                   /\ pc' = new_pc
                   /\ bp_counter' = PredictUpdate(bp_counter, pc, FALSE)
                   /\ ephase' = "read"
                   /\ packet' = NewPacket /\ wpc' = 0 /\ arcs' = 0
                   /\ UNCHANGED loop_left
       IN
       IF mode_is_predict /\ packet.f_header = "FTb" THEN      \* predicted hit
           /\ UNCHANGED timestamp
           /\ IF ~IsBranch(insn_to_resolve) THEN Fail
              ELSE IF Prediction(bp_counter, pc)
                   THEN GoLoop("TakenBranch", timestamp, TakenTo(pc))
                   ELSE GoLoop("NonTakenBranch", timestamp, NotTakenTo(pc))
       ELSE IF mode_is_predict /\ packet.f_header = "FNt" THEN  \* predicted miss
           /\ UNCHANGED timestamp
           /\ IF ~IsBranch(insn_to_resolve) THEN Fail
              ELSE IF ~Prediction(bp_counter, pc)   \* reverse as we mispredicted
                   THEN GoMiss("TakenBranch", timestamp, TakenTo(pc))
                   ELSE GoMiss("NonTakenBranch", timestamp, NotTakenTo(pc))
       ELSE
           /\ timestamp' = timestamp + packet.timestamp
           /\ CASE packet.f_header = "FTb" ->
                     IF ~IsBranch(insn_to_resolve) THEN Fail
                     ELSE Go("TakenBranch", timestamp', TakenTo(pc))
                [] packet.f_header = "FNt" ->
                     IF ~IsBranch(insn_to_resolve) THEN Fail
                     ELSE Go("NonTakenBranch", timestamp', NotTakenTo(pc))
                [] packet.f_header = "FIj" ->
                     IF ~IsIJ(insn_to_resolve) THEN Fail
                     ELSE Go("InferrableJump", timestamp', TakenTo(pc))
                [] packet.f_header = "FUj" ->
                     IF ~IsUJ(insn_to_resolve) THEN Fail
                     ELSE Go("UninferableJump", timestamp',
                             XorTarget(pc, packet.target_address))
                [] OTHER -> Fail
    /\ UNCHANGED <<consVars, unwinder, call, ret, partial, br_mode, enabled, mainVars, rcvVars, packet_count, target_pc,
                   first_byte, first_packet>>

\* ------------------------------------------------------------ specification
Frontend ==
    ReadFirstPacket \/ ReadPacket \/ Dispatch \/ StepBB \/ StepBBUntil
    \/ AfterUntil \/ Resolve
Main == AddRx \/ SpawnThreads \/ JoinFrontend \/ JoinAfterPanic \/ JoinReceivers
Receiver(c) == Receive(c) \/ ObserveClosed(c)

Next == Main \/ Frontend \/ (\E c \in Receivers : Receiver(c))

Spec == Init /\ [][Next]_vars

\* The default command line: only the txt receiver.
InitTxt == Init /\ enabled = {1}
SpecTxt == InitTxt /\ [][Next]_vars

\* ------------------------------------------ the functions applied on their own
\* Longest byte string handed to read_varint.
MaxVarintLen == 3
\* Bytes the file may hold: payloads 0, 1, 2 and 127, with and without the
\* high bit.
ByteVals == {0, 1, 2, 127, 128, 129, 130, 255}
VarintInputs == UNION {[1..n -> ByteVals] : n \in 0..MaxVarintLen}
\* A header byte, then nothing, one more byte, three one-byte varints, or the
\* three varints and one more byte.
PacketTails == {<<>>, <<133>>, <<128, 131, 133>>, <<128, 131, 133, 20>>}
PacketInputs == {<<b>> \o t : b \in 0..255, t \in PacketTails}
PredictPcs == 0..7
progVars == <<br_mode, enabled, mainVars, busVars, rcvVars, ephase, pc, timestamp, wpc,
              packet, packet_count, target_pc, loop_left, first_byte, first_packet,
              obsVars, unwinder, consVars>>

ApplyReadVarint ==
    /\ call = NoCall
    /\ \E bytes \in VarintInputs :
          /\ call' = [fn |-> "read_varint", bytes |-> bytes]
          /\ ret' = read_varint(bytes, 1)
    /\ UNCHANGED <<progVars, bp_counter>>

ApplyReadPacket ==
    /\ call = NoCall
    /\ \E bytes \in PacketInputs :
          /\ call' = [fn |-> "read_packet", bytes |-> bytes]
          /\ ret' = read_packet(bytes)
    /\ UNCHANGED <<progVars, bp_counter>>

ApplyReadFirstPacket ==
    /\ call = NoCall
    /\ \E bytes \in PacketInputs :
          /\ call' = [fn |-> "read_first_packet", bytes |-> bytes]
          /\ ret' = read_first_packet(bytes)
    /\ UNCHANGED <<progVars, bp_counter>>

\* bp_counter.predict(pc, hit) on the table as it is
ApplyPredict ==
    /\ call = NoCall
    /\ \E a \in PredictPcs, hit \in BOOLEAN :
          /\ call' = [fn |-> "predict", pc |-> a, hit |-> hit, counters |-> bp_counter]
          /\ ret' = Prediction(bp_counter, a)
          /\ bp_counter' = PredictUpdate(bp_counter, a, hit)
    /\ UNCHANGED progVars

\* Any table of counters a run of predict calls can leave.
InitFn ==
    /\ br_mode = "BrTarget" /\ enabled = {1}
    /\ mphase = "attach" /\ jnext = 1 /\ joined = {} /\ attached = {}
    /\ ring = [i \in 0..(Slots - 1) |-> Slot(NoEntry, 0)] /\ tail = 0
    /\ rx_head = [c \in Receivers |-> 0]
    /\ rstate = [c \in Receivers |-> "unspawned"]
    /\ last_rx = [c \in Receivers |-> Slot(NoEntry, 0)]
    /\ ephase = "unspawned" /\ pc = 0 /\ timestamp = 0 /\ wpc = 0
    /\ packet = NewPacket /\ packet_count = 0 /\ target_pc = 0 /\ loop_left = 0
    /\ bp_counter \in [0..(BpEntries - 1) ->
                          {StrongNotTaken, WeakNotTaken, WeakTaken, StrongTaken}]
    /\ first_byte = -1 /\ first_packet = NewPacket
    /\ call = NoCall /\ ret = NoCall
    /\ partial = 0 /\ arcs = 0 /\ sent = 0
    /\ unwinder = NoUnwinder
    /\ NoConsumer
NextFn == ApplyReadVarint \/ ApplyReadPacket \/ ApplyReadFirstPacket \/ ApplyPredict
SpecFn == InitFn /\ [][NextFn]_vars

\* -------------------------------------------- the unwinder driven on its own
\* The entries a receiver hands to its unwinder.  Targets: the three function
\* addresses and two addresses inside functions.  The instruction at `from`
\* is a ret (10), a jalr (20), c.jr ra (32), c.jr a5 (34) or missing (4).
ArcTargets == {0, 2, 12, 14, 20}
FewTargets == {0, 2}
IjEntries ==
    {new_timed_event("InferrableJump", 0, 12, t) : t \in ArcTargets}
    \cup {new_timed_event(e, 0, 12, t) :
             e \in {"TrapException", "TrapInterrupt"}, t \in FewTargets}
UjEntries ==
    {new_timed_event("UninferableJump", 0, f, t) : f \in {10, 32}, t \in ArcTargets}
    \cup {new_timed_event("UninferableJump", 0, f, t) : f \in {4, 20, 34}, t \in FewTargets}
    \cup {new_timed_event("TrapReturn", 0, f, t) : f \in {10, 20}, t \in FewTargets}
unwVars == <<br_mode, enabled, mainVars, busVars, rcvVars, engVars, obsVars, consVars>>
Alive == call # NoCall /\ ret # PanicRet

\* StackUnwinder::new(elf_path) in a receiver's constructor
New ==
    /\ call = NoCall
    /\ \E syms \in SymbolInputs :
          /\ call' = [fn |-> "new", symbols |-> syms]
          /\ unwinder' = StackUnwinder_new(syms)
          /\ ret' = [ok |-> TRUE]
    /\ UNCHANGED unwVars

StepIj ==
    /\ Alive
    /\ Len(unwinder.frame_stack) < MaxDepth
    /\ \E entry \in IjEntries :
          /\ call' = [fn |-> "step_ij", entry |-> entry]
          /\ unwinder' = step_ij(unwinder, entry).u
          /\ ret' = step_ij(unwinder, entry).ret
    /\ UNCHANGED unwVars

StepUj ==
    /\ Alive
    /\ \E entry \in UjEntries :
          /\ call' = [fn |-> "step_uj", entry |-> entry]
          /\ unwinder' = step_uj(unwinder, entry).u
          /\ ret' = step_uj(unwinder, entry).ret
    /\ UNCHANGED unwVars

Flush ==
    /\ Alive
    /\ call' = [fn |-> "flush"]
    /\ unwinder' = flush(unwinder).u
    /\ ret' = flush(unwinder).ret
    /\ UNCHANGED unwVars

InitUnw == Init /\ br_mode = "BrTarget" /\ enabled = {1}
NextUnw == New \/ StepIj \/ StepUj \/ Flush
SpecUnw == InitUnw /\ [][NextUnw]_vars

\* ------------------------------------------- the receivers that keep a stack
\* StackTxtReceiver, AtomicReceiver and SpeedscopeReceiver each own a
\* StackUnwinder and feed it the jump and trap entries they receive.  One of
\* them is followed, on any sequence of at most MaxReceived entries.
MaxReceived == 4
Consumers == {"stack_txt", "atomic", "speedscope"}
ConsumerEntries ==
    {new_timed_event("InferrableJump", 0, 12, t) : t \in ArcTargets}
    \cup {new_timed_event("TrapException", 0, 12, 0)}
    \cup {new_timed_event("UninferableJump", 0, 10, t) : t \in ArcTargets}
    \cup {new_timed_event("UninferableJump", 0, f, 2) : f \in {4, 20, 32, 34}}
    \cup {new_timed_event("TrapReturn", 0, 10, 2)}
    \cup {new_timed_event("Start", 1, 0, 0)}
    \cup {new_timed_event("End", ts, 0, 0) : ts \in {0, 1}}
    \cup {new_insn(0)}

\* call_stack.pop() once for each closed frame; Vec::pop on an empty vector
\* does nothing
PopEach(stack, closed) ==
    IF Len(closed) >= Len(stack) THEN <<>>
    ELSE SubSeq(stack, 1, Len(stack) - Len(closed))
PushOpenedNever(stack, opened) == stack
PushOpened(stack, opened) == IF opened = None THEN stack ELSE Append(stack, opened)

\* StackTxtReceiver::_receive_entry: the unwinder and the call_stack it leaves
StackTxt_receive_entry(u, stack, entry) ==
    IF entry.event \in {"InferrableJump", "TrapException", "TrapInterrupt"}
    THEN LET r == step_ij(u, entry) IN
         [u |-> r.u, panicked |-> FALSE,
          call_stack |-> IF r.ret.success /\ r.ret.symbol_info # None
                         THEN Append(stack, r.ret.symbol_info) ELSE stack]
    ELSE IF entry.event \in {"UninferableJump", "TrapReturn"}
    THEN LET r == step_uj(u, entry) IN
         IF r.ret = PanicRet
         THEN [u |-> r.u, panicked |-> TRUE, call_stack |-> stack]
         ELSE [u |-> r.u, panicked |-> FALSE,
               call_stack |-> IF r.ret.success
                              THEN PushOpened(PopEach(stack, r.ret.closed_frames),
                                              r.ret.opened)
                              ELSE stack]
    ELSE [u |-> u, panicked |-> FALSE, call_stack |-> stack]

\* AtomicReceiver::_receive_entry, the part that keeps the call stack
Atomic_receive_entry(u, stack, entry) ==
    IF entry.event \in {"InferrableJump", "TrapException", "TrapInterrupt"}
    THEN LET r == step_ij(u, entry) IN
         [u |-> r.u, panicked |-> FALSE,
          call_stack |-> IF r.ret.success /\ r.ret.symbol_info # None
                         THEN Append(stack, r.ret.symbol_info) ELSE stack]
    ELSE IF entry.event \in {"UninferableJump", "TrapReturn"}
    THEN LET r == step_uj(u, entry) IN
         IF r.ret = PanicRet
         THEN [u |-> r.u, panicked |-> TRUE, call_stack |-> stack]
         ELSE [u |-> r.u, panicked |-> FALSE,
               call_stack |-> IF r.ret.success
                              THEN PushOpened(PopEach(stack, r.ret.closed_frames),
                                              r.ret.opened)
                              ELSE stack]
    ELSE [u |-> u, panicked |-> FALSE, call_stack |-> stack]

\* ProfileEntry, and the events that close a list of frames at one time
ProfileEntry(type, frame, at) == [type |-> type, frame |-> frame, at |-> at]
CloseEvents(closed_frames, at) ==
    [i \in 1..Len(closed_frames) |-> ProfileEntry("C", closed_frames[i].index, at)]
OpenEventsForgotten(opened, at) == <<>>
OpenEvents(opened, at) ==
    IF opened = None THEN <<>> ELSE <<ProfileEntry("O", opened.index, at)>>

\* SpeedscopeReceiver::_receive_entry
Speedscope_receive_entry(u, entries, start, end, entry) ==
    LET same == [u |-> u, panicked |-> FALSE, profile_entries |-> entries,
                 start |-> start, end |-> end]
    IN
    IF entry.event \in {"InferrableJump", "TrapException", "TrapInterrupt"}
    THEN LET r == step_ij(u, entry) IN
         [same EXCEPT !.u = r.u,
                      !.profile_entries =
                          IF r.ret.success
                          THEN entries \o OpenEvents(r.ret.symbol_info, entry.ts)
                          ELSE entries]
    ELSE IF entry.event \in {"UninferableJump", "TrapReturn"}
    THEN LET r == step_uj(u, entry) IN
         IF r.ret = PanicRet THEN [same EXCEPT !.panicked = TRUE]
         ELSE [same EXCEPT !.u = r.u,
                           !.profile_entries =
                               (IF r.ret.success
                                THEN entries \o CloseEvents(r.ret.closed_frames, entry.ts)
                                ELSE entries)
                               \o OpenEvents(r.ret.opened, entry.ts)]
    ELSE IF entry.event = "Start" THEN [same EXCEPT !.start = entry.ts]
    ELSE IF entry.event = "End" THEN [same EXCEPT !.end = entry.ts]
    ELSE same

\* SpeedscopeReceiver::_flush, up to the writing of the file
Speedscope_flush(u, entries, end) ==
    IF end = 0 /\ entries = <<>>
    THEN [u |-> u, panicked |-> TRUE, profile_entries |-> entries, end |-> end]  \* unwrap
    ELSE LET the_end == IF end = 0 THEN entries[Len(entries)].at ELSE end IN
         [u |-> flush(u).u, panicked |-> FALSE,
          profile_entries |-> entries \o CloseEvents(flush(u).ret.closed_frames, the_end),
          end |-> the_end]

consFrame == <<br_mode, enabled, mainVars, busVars, rcvVars, engVars, obsVars, fnVars>>
Receiving == consumer # "none" /\ cstate = "receiving"

\* XReceiver::new(bus_rx, elf_path)
NewReceiver ==
    /\ consumer = "none"
    /\ consumer' \in Consumers
    /\ \E syms \in SymbolInputs : unwinder' = StackUnwinder_new(syms)
    /\ UNCHANGED <<consFrame, call_stack, profile_entries, profile_start, profile_end,
                   cstate, received>>

StackTxtReceive ==
    /\ Receiving /\ consumer = "stack_txt"
    /\ received < MaxReceived
    /\ \E entry \in ConsumerEntries :
          LET r == StackTxt_receive_entry(unwinder, call_stack, entry) IN
          /\ unwinder' = r.u
          /\ call_stack' = r.call_stack
          /\ cstate' = IF r.panicked THEN "panicked" ELSE cstate
    /\ received' = received + 1
    /\ UNCHANGED <<consFrame, consumer, profile_entries, profile_start, profile_end>>

AtomicReceive ==
    /\ Receiving /\ consumer = "atomic"
    /\ received < MaxReceived
    /\ \E entry \in ConsumerEntries :
          LET r == Atomic_receive_entry(unwinder, call_stack, entry) IN
          /\ unwinder' = r.u
          /\ call_stack' = r.call_stack
          /\ cstate' = IF r.panicked THEN "panicked" ELSE cstate
    /\ received' = received + 1
    /\ UNCHANGED <<consFrame, consumer, profile_entries, profile_start, profile_end>>

SpeedscopeReceive ==
    /\ Receiving /\ consumer = "speedscope"
    /\ received < MaxReceived
    /\ \E entry \in ConsumerEntries :
          LET r == Speedscope_receive_entry(unwinder, profile_entries, profile_start,
                                            profile_end, entry) IN
          /\ unwinder' = r.u
          /\ profile_entries' = r.profile_entries
          /\ profile_start' = r.start
          /\ profile_end' = r.end
          /\ cstate' = IF r.panicked THEN "panicked" ELSE cstate
    /\ received' = received + 1
    /\ UNCHANGED <<consFrame, consumer, call_stack>>

\* the end of the stream: SpeedscopeReceiver::_flush
SpeedscopeFlush ==
    /\ Receiving /\ consumer = "speedscope"
    /\ LET r == Speedscope_flush(unwinder, profile_entries, profile_end) IN
          /\ unwinder' = r.u
          /\ profile_entries' = r.profile_entries
          /\ profile_end' = r.end
          /\ cstate' = IF r.panicked THEN "panicked" ELSE "flushed"
    /\ UNCHANGED <<consFrame, consumer, call_stack, profile_start, received>>

\* StackTxtReceiver::_flush, AtomicReceiver::_flush: writer.flush()
WriterFlush ==
    /\ Receiving /\ consumer \in {"stack_txt", "atomic"}
    /\ cstate' = "flushed"
    /\ UNCHANGED <<consFrame, unwinder, consumer, call_stack, profile_entries,
                   profile_start, profile_end, received>>

InitRcv == Init /\ br_mode = "BrTarget" /\ enabled = {1}
NextRcv ==
    NewReceiver \/ StackTxtReceive \/ AtomicReceive \/ SpeedscopeReceive
    \/ SpeedscopeFlush \/ WriterFlush
SpecRcv == InitRcv /\ [][NextRcv]_vars

\* ======================================================= properties: the bus
\* a step that broadcasts an entry, and the slot the entry goes to
Broadcasts == tail' = tail + 1
NewEntry == ring'[tail % Slots].e
Running(c) == c \in enabled /\ rstate[c] \in {"running", "done"}

\* C1: every consumer receives the sequence of broadcast entries in broadcast
\* order, with no entry dropped, duplicated or reordered: the k-th entry a
\* consumer takes is the k-th entry broadcast, two consumers at the same
\* position hold the same entry, and a consumer that finished took all of them.
C1_SameSequenceInOrder ==
    /\ \A c \in Receivers :
          Running(c) /\ rx_head[c] > 0 => last_rx[c].seq = rx_head[c]
    /\ \A c, d \in Receivers :
          Running(c) /\ Running(d) /\ rx_head[c] = rx_head[d] => last_rx[c] = last_rx[d]
    /\ \A c \in Receivers : rstate[c] = "done" => rx_head[c] = tail

\* two consumers finished a run whose entries wrapped around the ring
C1_Witness ==
    /\ enabled = Receivers
    /\ \A c \in Receivers : rstate[c] = "done" /\ rx_head[c] = tail
    /\ tail > Slots
    /\ last_rx[1].e.event = "End"

\* C2: a consumer is never more than BUS_SIZE entries behind the producer; a
\* broadcast completes only when the slowest consumer is fewer than BUS_SIZE
\* behind; the slot it overwrites holds an entry every consumer has taken.
C2_BoundedLagNoOverwrite ==
    /\ [](\A c \in Readers : tail - rx_head[c] <= BUS_SIZE)
    /\ [][Broadcasts =>
            \A c \in Readers :
                /\ tail - rx_head[c] < BUS_SIZE
                /\ ring[tail % Slots].seq <= rx_head[c]]_vars

\* the producer is blocked in a broadcast: a consumer is BUS_SIZE behind, the
\* ring has wrapped, and the next thing the engine does is a broadcast
C2_Witness ==
    /\ ephase = "bb" /\ HasInsn(wpc)
    /\ tail > Slots
    /\ \E c \in Readers : rstate[c] = "running" /\ tail - rx_head[c] = BUS_SIZE
    /\ ~CanBroadcast

\* C3: after the producer has dropped the bus, every consumer still takes
\* every entry, observes the closure and terminates: when the process is
\* over, every consumer that did not fail itself has finished with all the
\* entries taken.
C3_DrainThenFinish ==
    Exited =>
        \A c \in enabled :
            rstate[c] # "panicked" => rstate[c] = "done" /\ rx_head[c] = tail

\* C4: main never returns while a thread it spawned is unjoined.
C4_ReturnsOnlyAfterAllJoined ==
    mphase \in {"ret_ok", "ret_err"} => joined = Threads

\* ==================================================== properties: the engine
\* target_address << 1, on the model's word
Shl1(x) == (x * 2) % AddrMod
\* bitwise XOR, bit by bit over the model's word
XorBits(a, b) ==
    LET Bit(x, i) == (x \div (2 ^ i)) % 2
        S[i \in 0..(AddrBits + 1)] ==
            IF i = 0 THEN 0
            ELSE S[i - 1] + ((2 ^ (i - 1)) * ((Bit(a, i - 1) + Bit(b, i - 1)) % 2))
    IN S[AddrBits + 1]
EndBroadcast == tail > 0 /\ LastEntry.event = "End"
Started == ephase \in {"read", "dispatch", "bb", "until", "after_until", "resolve", "ok"}

\* C5: when the first byte of the stream is not a CNa / FSync header (bits 1:0
\* = 2 and bits 4:2 = 5), decoding aborts and nothing at all is broadcast.
C5_BadFirstByteNoEntry ==
    (first_byte # -1 /\ ~((first_byte % 4) = 2 /\ ((first_byte \div 4) % 8) = 5))
        => (tail = 0 /\ ephase = "panicked")

\* the engine has aborted on a full-format FTrap header, the consumer has seen
\* the closure and has received nothing
C5_Witness ==
    /\ first_byte = HeaderByte(2, 4, 1)
    /\ ephase = "panicked" /\ tail = 0
    /\ rstate[1] = "done" /\ rx_head[1] = 0

\* C6: with a valid first packet the first entry broadcast is Start, no later
\* entry is Start, Start carries from_pc = target_address << 1 and the first
\* packet's timestamp, and the engine's pc and timestamp are those values.
C6_StartFirstExactlyOnce ==
    /\ [](Started \/ (ephase = "panicked" /\ first_byte = HeaderByte(2, 5, 0))
            => tail >= 1)
    /\ [](rx_head[1] = 1 => last_rx[1].e.event = "Start")
    /\ [][(tail = 0 /\ Broadcasts) =>
            /\ NewEntry.event = "Start"
            /\ NewEntry.from = Shl1(first_packet'.target_address)
            /\ NewEntry.ts = first_packet'.timestamp
            /\ pc' = Shl1(first_packet'.target_address)
            /\ timestamp' = first_packet'.timestamp]_vars
    /\ [][(tail > 0 /\ Broadcasts) => NewEntry.event # "Start"]_vars

\* Start has just been broadcast for a first packet with target_address = 3
C6_Witness ==
    /\ tail = 1 /\ LastEntry.event = "Start"
    /\ first_packet.target_address = 3
    /\ LastEntry.from = 6 /\ pc = 6
    /\ LastEntry.ts = first_packet.timestamp /\ timestamp = first_packet.timestamp

\* C7: a non-first FSync is terminal: once End is broadcast the engine has
\* ended, nothing more is broadcast (so End is the last entry, and there is one
\* End at most), and no packet is read after an FSync.
C7_EndIsTerminal ==
    /\ [](EndBroadcast => ephase = "ok")
    /\ [][EndBroadcast => (tail' = tail /\ packet_count' = packet_count)]_vars
    /\ [][packet.f_header = "FSync" =>
            (packet_count' = packet_count /\ packet' = packet)]_vars

\* End was broadcast for the first packet after Start, the consumer took it and
\* finished, and the bound on packets would have allowed another read
C7_Witness ==
    /\ EndBroadcast /\ ephase = "ok"
    /\ packet_count = 1 /\ packet_count < MaxPackets
    /\ rstate[1] = "done" /\ last_rx[1].e.event = "End"

\* The n-th address of a walk from a0: linear (pc += insn.len), or following
\* direct jumps (pc += offset at a direct jump).
RECURSIVE Visit(_, _, _)
Visit(follow, a0, n) ==
    IF n = 0 THEN a0
    ELSE LET p == Visit(follow, a0, n - 1) IN
         IF ~HasInsn(p) THEN p
         ELSE IF follow /\ IsIJ(insn_map[p]) THEN (p + insn_map[p].offset) % AddrMod
         ELSE p + insn_map[p].len
\* b is the first address of the linear walk from a0 that holds a conditional
\* branch or a direct jump or is the target t; every address before it is mapped
FirstUntilStop(a0, t, b) ==
    \E k \in 0..MaxSent :
        /\ Visit(FALSE, a0, k) = b
        /\ HasInsn(b)
        /\ IsBranch(insn_map[b]) \/ IsIJ(insn_map[b]) \/ b = t
        /\ \A j \in 0..(k - 1) :
              LET a == Visit(FALSE, a0, j) IN
              /\ HasInsn(a)
              /\ ~(IsBranch(insn_map[a]) \/ IsIJ(insn_map[a]) \/ a = t)

\* C8 as stated: End's from_pc is target_address << 1 of the terminating FSync,
\* whatever instructions lie between the pc and that address.
C8_EndAtSyncTarget ==
    EndBroadcast => LastEntry.from = Shl1(packet.target_address)

\* C8, amended: the walk of a terminating FSync ends at the first address of
\* the linear walk from pc that holds a conditional branch or a direct jump or
\* equals target_address << 1 (indirect jumps are walked over), and End carries
\* that address as from_pc and the packet's timestamp.
C8_EndWhereWalkStops ==
    /\ [][(ephase = "until" /\ ephase' = "after_until" /\ packet.f_header = "FSync")
            => FirstUntilStop(pc, Shl1(packet.target_address), pc')]_vars
    /\ [][(ephase = "after_until" /\ packet.f_header = "FSync" /\ Broadcasts)
            => NewEntry = [event |-> "End", from |-> pc, to |-> 0,
                           ts |-> packet.timestamp]]_vars
    /\ [](EndBroadcast =>
            /\ LastEntry.from = pc
            /\ HasInsn(pc)
            /\ \/ pc = Shl1(packet.target_address)
               \/ IsBranch(insn_map[pc]) \/ IsIJ(insn_map[pc]))

\* Start at 6, the branch not taken to the indirect jump at 10, then an FSync
\* with target 6: the walk goes over the indirect jump and End is at 12
C8_Witness ==
    /\ EndBroadcast /\ br_mode = "BrTarget"
    /\ first_packet.target_address = 3
    /\ packet_count = 2 /\ packet.target_address = 6
    /\ LastEntry.from = 12 /\ pc = 12 /\ tail = 6

\* a step that ends the handling of the packet at the instruction step_bb
\* stopped at
Resolves == ephase = "resolve" /\ ephase' # "resolve"

\* C9: in the non-predict modes an FUj packet resolved at an indirect jump at
\* last_pc broadcasts exactly one entry, UninferableJump from last_pc to
\* new_pc = (target_address XOR (last_pc >> 1)) << 1, and pc becomes new_pc.
C9_UninferableJumpTarget ==
    [][(Resolves /\ ~mode_is_predict /\ packet.f_header = "FUj"
          /\ HasInsn(pc) /\ insn_map[pc].mnemonic \in UJ_OPCODES)
        => LET new_pc == Shl1(XorBits(packet.target_address, pc \div 2)) IN
           /\ Broadcasts
           /\ NewEntry.event = "UninferableJump"
           /\ NewEntry.from = pc /\ NewEntry.to = new_pc
           /\ pc' = new_pc
           /\ ephase' = "read"]_vars

\* the indirect jump at 20 was resolved by an FUj with target_address 6:
\* (6 XOR 10) << 1 = 24
C9_Witness ==
    /\ br_mode = "BrTarget" /\ ephase = "read" /\ packet_count = 1
    /\ LastEntry.event = "UninferableJump"
    /\ LastEntry.from = 20 /\ LastEntry.to = 24 /\ pc = 24

\* what a non-predict FTb / FNt packet resolved at a conditional branch does:
\* one TakenBranch entry to b + offset, or one NonTakenBranch entry to
\* b + insn.len, and pc becomes the entry's target
BranchArcs ==
    /\ [][(Resolves /\ ~mode_is_predict /\ packet.f_header = "FTb"
             /\ insn_map[pc].mnemonic \in BRANCH_OPCODES)
           => /\ Broadcasts
              /\ NewEntry.event = "TakenBranch"
              /\ NewEntry.from = pc
              /\ NewEntry.to = (pc + insn_map[pc].offset) % AddrMod
              /\ pc' = NewEntry.to /\ ephase' = "read"]_vars
    /\ [][(Resolves /\ ~mode_is_predict /\ packet.f_header = "FNt"
             /\ insn_map[pc].mnemonic \in BRANCH_OPCODES)
           => /\ Broadcasts
              /\ NewEntry.event = "NonTakenBranch"
              /\ NewEntry.from = pc
              /\ NewEntry.to = pc + insn_map[pc].len
              /\ pc' = NewEntry.to /\ ephase' = "read"]_vars

ControlFlow(a) ==
    insn_map[a].mnemonic \in (BRANCH_OPCODES \cup IJ_OPCODES \cup UJ_OPCODES)
\* b is the first address of the walk from a0 at which the walk stops
FirstStop(follow, a0, b) ==
    \E k \in 0..MaxSent :
        /\ Visit(follow, a0, k) = b
        /\ HasInsn(b) /\ ControlFlow(b)
        /\ ~(follow /\ IsIJ(insn_map[b]))
        /\ \A j \in 0..(k - 1) :
              LET a == Visit(follow, a0, j) IN
              HasInsn(a) /\ (ControlFlow(a) => follow /\ IsIJ(insn_map[a]))

\* C10 as stated: the arcs above, and the branch b is the first control-flow
\* instruction of the linear walk from the current pc.
C10_BranchAtFirstControlFlow ==
    /\ BranchArcs
    /\ [][(ephase = "bb" /\ ephase' = "resolve" /\ ~mode_is_predict)
            => FirstStop(FALSE, pc, pc')]_vars

\* C10, amended: the arcs above; in BrTarget b is the first control-flow
\* instruction of the linear walk from the current pc; in the other non-predict
\* mode direct jumps are followed and b is the first conditional branch or
\* indirect jump of that walk.
C10_BranchAtWalkStop ==
    /\ BranchArcs
    /\ [][(ephase = "bb" /\ ephase' = "resolve" /\ ~mode_is_predict)
            => FirstStop(br_mode # "BrTarget", pc, pc')]_vars

\* BrReserved: the branch at 6 taken to the direct jump at 12, then the walk
\* of the second packet follows the jump to 0 and stops at the branch at 6,
\* which is not taken
C10_Witness ==
    /\ br_mode = "BrReserved" /\ packet_count = 2 /\ ephase = "read"
    /\ first_packet.target_address = 3
    /\ LastEntry.event = "NonTakenBranch"
    /\ LastEntry.from = 6 /\ LastEntry.to = 10 /\ pc = 10
    /\ tail = 8

\* ================================================= properties: the predictor
\* The counter a hit leaves (one step toward the predicted side) and the one a
\* miss leaves (one step away from it), by state.
HitTable == (0 :> 0) @@ (1 :> 0) @@ (2 :> 3) @@ (3 :> 3)
MissTable == (0 :> 1) @@ (1 :> 2) @@ (2 :> 1) @@ (3 :> 2)
CounterAt(a) == bp_counter[(a \div 2) % BpEntries]
PredictedTaken(a) == CounterAt(a) \in {2, 3}
Dispatches == ephase = "dispatch" /\ ephase' # "dispatch"
BranchAt(a) == HasInsn(a) /\ insn_map[a].mnemonic \in BRANCH_OPCODES
\* the handling of a predicted-hit packet, after BPHit
InHit == mode_is_predict /\ packet.f_header = "FTb" /\ ephase \in {"bb", "resolve"}
\* the handling of a predicted-miss packet
InMiss == mode_is_predict /\ packet.f_header = "FNt"
             /\ ephase \in {"dispatch", "bb", "resolve"}

C12_PredictedMiss ==
    /\ [][(Dispatches /\ mode_is_predict /\ packet.f_header = "FNt") =>
            /\ timestamp' = timestamp + packet.timestamp
            /\ Broadcasts
            /\ NewEntry = [event |-> "BPMiss", from |-> pc, to |-> pc,
                           ts |-> timestamp']
            /\ ephase' = "bb"]_vars
    /\ [][(InMiss /\ ephase = "bb" /\ ephase' = "resolve")
            => FirstStop(TRUE, pc, pc')]_vars
    /\ [][(InMiss /\ Resolves /\ BranchAt(pc)) =>
            /\ Broadcasts
            /\ NewEntry.event =
                  (IF PredictedTaken(pc) THEN "NonTakenBranch" ELSE "TakenBranch")
            /\ NewEntry.from = pc
            /\ NewEntry.to = (IF PredictedTaken(pc)
                              THEN pc + insn_map[pc].len
                              ELSE (pc + insn_map[pc].offset) % AddrMod)
            /\ NewEntry.ts = timestamp
            /\ pc' = NewEntry.to
            /\ bp_counter' = [bp_counter EXCEPT
                                 ![(pc \div 2) % BpEntries] = MissTable[@]]
            /\ ephase' = "read"]_vars
    /\ [][(InMiss /\ ~Resolves) => bp_counter' = bp_counter]_vars

\* a miss at the branch at 6, predicted not-taken: it was taken to 12 and the
\* counter went from WeakNotTaken to WeakTaken
C12_Witness ==
    /\ mode_is_predict /\ ephase = "read" /\ packet_count = 1
    /\ first_packet.target_address = 3
    /\ LastEntry.event = "TakenBranch" /\ LastEntry.from = 6 /\ LastEntry.to = 12
    /\ LastEntry.ts = 1 /\ timestamp = 1
    /\ bp_counter[1] = WeakTaken /\ bp_counter[0] = WeakNotTaken

\* C13: predict(pc, hit) returns bit 1 of the counter at index (pc >> 1) mod N
\* as it was before the call and updates only that counter: one step toward
\* the predicted side on a hit, one step away from it otherwise, saturating;
\* every counter holds one of the four states.
C13_PredictStep ==
    call.fn = "predict" =>
        LET i == (call.pc \div 2) % BpEntries
            st == call.counters[i]
        IN /\ ret = (((st \div 2) % 2) = 1)
           /\ bp_counter[i] = (IF call.hit THEN HitTable[st] ELSE MissTable[st])
           /\ \A j \in 0..(BpEntries - 1) :
                 /\ j # i => bp_counter[j] = call.counters[j]
                 /\ bp_counter[j] \in 0..3

\* a hit at pc 2 on a StrongNotTaken counter: not-taken is returned, counter 1
\* stays saturated and counter 0 keeps its WeakTaken
C13_Witness ==
    /\ call.fn = "predict" /\ call.pc = 2 /\ call.hit
    /\ call.counters[1] = StrongNotTaken /\ call.counters[0] = WeakTaken
    /\ ret = FALSE
    /\ bp_counter[1] = StrongNotTaken /\ bp_counter[0] = WeakTaken

\* ===================================================== properties: the codec
\* index of the first byte with the high bit set (0: there is none)
FirstLastByte(bytes) ==
    IF \E i \in 1..Len(bytes) : bytes[i] >= 128
    THEN CHOOSE i \in 1..Len(bytes) :
            bytes[i] >= 128 /\ \A j \in 1..(i - 1) : bytes[j] < 128
    ELSE 0
\* sum over i < n of (b_i AND 0x7F) << (7 * i)
PayloadSum(bytes, n) ==
    LET S[i \in 0..n] ==
            IF i = 0 THEN 0
            ELSE S[i - 1] + ((bytes[i] % 128) * (128 ^ (i - 1)))
    IN S[n]
\* the shortest encoding of x: 7 bits a byte from the low end, the high bit on
\* the last byte
RECURSIVE EncodeVarint(_)
EncodeVarint(x) ==
    IF x < 128 THEN <<x + 128>> ELSE <<x % 128>> \o EncodeVarint(x \div 128)
VarintVals ==
    {p0 + (128 * p1) + (16384 * p2) : p0, p1, p2 \in {0, 1, 2, 127}}

\* C17: read_varint consumes the bytes up to and including the first one whose
\* high bit is set and returns the sum of (b_i AND 0x7F) << (7 * i); it fails
\* when the file ends before such a byte; decoding the shortest encoding of x
\* returns x.
C17_VarintValue ==
    call.fn = "read_varint" =>
        LET n == FirstLastByte(call.bytes) IN
        /\ IF n = 0 THEN ~ret.ok
           ELSE ret.ok /\ ret.next = n + 1 /\ ret.val = PayloadSum(call.bytes, n)
        /\ \A x \in VarintVals :
              call.bytes = EncodeVarint(x) =>
                  ret.ok /\ ret.val = x /\ ret.next = Len(call.bytes) + 1

\* bytes 0x01 0x82, the shortest encoding of 0x101, decode to 0x101
C17_Witness ==
    /\ call.fn = "read_varint" /\ call.bytes = <<1, 130>>
    /\ call.bytes = EncodeVarint(257)
    /\ ret.ok /\ ret.val = 257 /\ ret.next = 3

\* C18: on a first byte whose bits 1:0 are 00, 01 or 11 read_packet consumes
\* that byte only and returns a compressed packet with f_header FTb, FNt or
\* FIj and timestamp = byte >> 2, in 0..63.
C18_CompressedPacket ==
    (call.fn = "read_packet" /\ (call.bytes[1] % 4) # 2) =>
        LET b == call.bytes[1] IN
        /\ ret.res = "ok" /\ ret.next = 2
        /\ ret.pkt.is_compressed = TRUE
        /\ ret.pkt.f_header = (CASE (b % 4) = 0 -> "FTb"
                                 [] (b % 4) = 1 -> "FNt"
                                 [] (b % 4) = 3 -> "FIj")
        /\ ret.pkt.timestamp = b \div 4
        /\ ret.pkt.timestamp \in 0..63
        /\ ret.pkt.target_address = 0 /\ ret.pkt.trap_address = 0

\* byte 0x14 with another byte behind it: CTb, timestamp 5, one byte consumed
C18_Witness ==
    /\ call.fn = "read_packet" /\ call.bytes = <<20, 133>>
    /\ ret.res = "ok" /\ ret.next = 2
    /\ ret.pkt.is_compressed /\ ret.pkt.f_header = "FTb" /\ ret.pkt.timestamp = 5

\* C19: every FSync packet, the first of the stream included, is parsed as the
\* header byte and three varints, branch mode, target_address and timestamp:
\* the packet holds the second and the third, and the read position is behind
\* the third.
C19_FSyncThreeVarints ==
    \A bm, t, ts \in 0..7 : \A rest \in {<<>>, <<20>>} :
        (/\ call.fn \in {"read_packet", "read_first_packet"}
         /\ call.bytes = <<22, 128 + bm, 128 + t, 128 + ts>> \o rest)
        => /\ ret.res = "ok"
           /\ ret.pkt.target_address = t /\ ret.pkt.timestamp = ts
           /\ ret.next = 5

\* ===================================================== properties: the traps
\* the step of trace_decoder behind the walk of an FTrap packet
TrapStep == ephase = "after_until" /\ ephase' # "after_until" /\ packet.f_header = "FTrap"
TrapKind(tt) ==
    CASE tt = "TException" -> "TrapException"
      [] tt = "TInterrupt" -> "TrapInterrupt"
      [] tt = "TReturn" -> "TrapReturn"
      [] OTHER -> "none"
TrapEntry(new_pc, ts) ==
    [event |-> TrapKind(packet.trap_type), from |-> packet.trap_address,
     to |-> new_pc, ts |-> ts]

\* C14 as stated: for every FTrap packet the walk ends with pc = trap_address;
\* then one trap entry of the kind of trap_type is broadcast with the arc
\* (trap_address, new_pc), new_pc = (target_address XOR (pc >> 1)) << 1, and
\* the running timestamp increased by packet.timestamp; pc becomes new_pc.
C14_TrapAtTrapAddress ==
    [][TrapStep =>
         LET new_pc == Shl1(XorBits(packet.target_address, pc \div 2)) IN
         /\ pc = packet.trap_address
         /\ pc' = new_pc
         /\ timestamp' = timestamp + packet.timestamp
         /\ Broadcasts
         /\ NewEntry = TrapEntry(new_pc, timestamp')]_vars

\* C14, amended: the walk of an FTrap packet ends at the first address of the
\* linear walk that holds a conditional branch or a direct jump or equals
\* trap_address; new_pc = (target_address XOR (pc >> 1)) << 1 for the pc the
\* walk ended at; with trap_type Exception, Interrupt or Return one entry of
\* that kind is broadcast with the arc (trap_address, new_pc) and the running
\* timestamp increased by packet.timestamp, and pc becomes new_pc; with
\* trap_type None the run aborts and no entry is broadcast.
C14_TrapWhereWalkStops ==
    /\ [][(ephase = "until" /\ ephase' = "after_until" /\ packet.f_header = "FTrap")
            => FirstUntilStop(pc, packet.trap_address, pc')]_vars
    /\ [][TrapStep =>
            LET new_pc == Shl1(XorBits(packet.target_address, pc \div 2)) IN
            IF packet.trap_type = "TNone"
            THEN ~Broadcasts /\ ephase' = "panicked"
            ELSE /\ pc' = new_pc
                 /\ timestamp' = timestamp + packet.timestamp
                 /\ Broadcasts
                 /\ NewEntry = TrapEntry(new_pc, timestamp')
                 /\ ephase' = "read"]_vars

\* from 0 the walk reached trap_address 6; TrapException from 6 to
\* (6 XOR 3) << 1 = 10 with the timestamp 0 + 1
C14_Witness ==
    /\ first_packet.target_address = 0 /\ first_packet.timestamp = 0
    /\ packet_count = 1 /\ ephase = "read" /\ tail = 5
    /\ LastEntry = [event |-> "TrapException", from |-> 6, to |-> 10, ts |-> 1]
    /\ pc = 10 /\ timestamp = 1

\* C15: every pc a broadcast entry carries, from and to, is even.
C15_BroadcastPcsEven ==
    tail > 0 => (LastEntry.from % 2) = 0 /\ (LastEntry.to % 2) = 0

\* C16: the timestamps of successive entries that carry one never decrease
\* (stated on the entries the ring still holds).
C16_TimestampsNonDecreasing ==
    \A i, j \in 0..(Slots - 1) :
        (/\ ring[i].seq > 0 /\ ring[i].seq < ring[j].seq
         /\ ring[i].e.ts # NoTs /\ ring[j].e.ts # NoTs)
        => ring[i].e.ts <= ring[j].e.ts

\* C20: a full packet whose f_header is FVal or FRes is not returned to the
\* engine: the reader fails on it, and nothing is broadcast for it.
C20_ReservedHeaderRejected ==
    /\ [][(ephase = "read" /\ ephase' = "dispatch")
            => packet'.f_header \notin {"FVal", "FRes"}]_vars
    /\ [][(packet.f_header \in {"FVal", "FRes"} /\ ephase \in {"dispatch", "bb", "resolve"})
            => ~Broadcasts]_vars

\* ============================================= properties: failures surfaced
\* C21: when the byte stream ends inside a packet (the read that met the end of
\* the file had consumed the header byte of a full packet, partial > 0),
\* trace_decoder returns an error and main does not return Ok.
C21_TruncatedPacketSurfaced ==
    (partial > 0 /\ BusDropped) => (ephase = "err" /\ mphase # "ret_ok")

\* the packet in hand does not fit the instruction step_bb stopped at: the
\* header asks for another class, or is none of FTb, FNt, FIj, FUj
Mismatch ==
    /\ ephase = "resolve"
    /\ CASE packet.f_header \in {"FTb", "FNt"} -> ~IsBranch(insn_map[pc])
         [] packet.f_header = "FIj" -> ~IsIJ(insn_map[pc])
         [] packet.f_header = "FUj" -> ~IsUJ(insn_map[pc])
         [] OTHER -> TRUE
\* the engine never broadcasts after it has aborted
PanickedIsSilent == ephase = "panicked" => tail' = tail

\* C22 as stated: on a mismatch the engine broadcasts Panic and fails, Panic is
\* the last entry of the run, and no branch or jump entry has been broadcast
\* for the packet.
C22_PanicNoArcForPacket ==
    [][/\ (Resolves /\ Mismatch) =>
            /\ Broadcasts
            /\ NewEntry = [event |-> "Panic", from |-> pc, to |-> 0, ts |-> 0]
            /\ ephase' = "panicked"
            /\ arcs = 0
       /\ PanickedIsSilent]_vars

\* C22, amended: on a mismatch the engine broadcasts Panic (and no branch or
\* jump entry for the instruction it stopped at) and fails, and Panic is the
\* last entry of the run; a predicted-hit packet has by then broadcast one
\* branch entry for each branch it resolved before, any other packet none.
C22_PanicAfterEarlierArcs ==
    [][/\ (Resolves /\ Mismatch) =>
            /\ Broadcasts
            /\ NewEntry = [event |-> "Panic", from |-> pc, to |-> 0, ts |-> 0]
            /\ ephase' = "panicked"
            /\ arcs = (IF InHit THEN packet.timestamp - loop_left ELSE 0)
       /\ PanickedIsSilent]_vars

\* a predicted-hit packet with count 2 resolved the branch at 6 and then
\* stopped at the ret at 10: one branch entry, then Panic
C22_Witness ==
    /\ ephase = "panicked" /\ LastEntry = [event |-> "Panic", from |-> 10, to |-> 0, ts |-> 0]
    /\ mode_is_predict /\ packet.f_header = "FTb" /\ packet.timestamp = 2
    /\ arcs = 1 /\ loop_left = 1

\* step_bb or step_bb_until looks up a pc the instruction map does not hold
WalkerMisses == ephase \in {"bb", "until"} /\ ~HasInsn(wpc) /\ ephase' # ephase

\* C23: when the walker reaches a pc without an entry in the instruction map,
\* the engine broadcasts a Panic entry and then aborts.
C23_MissingInsnPanicEntry ==
    [][WalkerMisses =>
          (Broadcasts /\ NewEntry.event = "Panic" /\ ephase' = "panicked")]_vars

\* ================================================ properties: the unwinder
\* a step that is one call of the operation, its entry, and the unwinder's
\* tables and stack before the call
Calls(fn) == call'.fn = fn /\ ret' # PanicRet
Symbols == unwinder.func_symbol_map
Known(a) == a \in DOMAIN Symbols
Stack == unwinder.frame_stack
Depth == Len(unwinder.frame_stack)
TablesKept ==
    /\ unwinder'.func_symbol_map = unwinder.func_symbol_map
    /\ unwinder'.idx_2_addr_range = unwinder.idx_2_addr_range
\* the frames of the stack whose range [start, end) holds address t
Holders(t) ==
    {i \in 1..Depth : /\ t >= unwinder.idx_2_addr_range[Stack[i]][1]
                       /\ t < unwinder.idx_2_addr_range[Stack[i]][2]}
Topmost(S) == CHOOSE i \in S : \A j \in S : j <= i
\* closed holds the frames of the stack above position k, the top one first
ClosedAbove(closed, k) ==
    /\ Len(closed) = Depth - k
    /\ \A j \in 1..(Depth - k) : closed[j].index = Stack[Depth - j + 1]
\* the instruction at the entry's `from`
PrevInsn == unwinder_insn_map[call'.entry.from]
HasPrevInsn == call'.entry.from \in DOMAIN unwinder_insn_map

\* C24: step_ij on an InferrableJump, TrapException or TrapInterrupt entry
\* pushes the index of the function starting at entry.arc.to and returns
\* (true, depth before + 1, that symbol) when the address is a known function
\* start; otherwise it leaves the stack alone and returns (false, depth, none).
C24_StepCall ==
    [][Calls("step_ij") =>
          /\ TablesKept
          /\ IF Known(call'.entry.to)
             THEN /\ unwinder'.frame_stack = Append(Stack, Symbols[call'.entry.to].index)
                  /\ ret' = [success |-> TRUE, frame_stack_size |-> Depth + 1,
                             symbol_info |-> Symbols[call'.entry.to]]
             ELSE /\ unwinder'.frame_stack = Stack
                  /\ ret' = [success |-> FALSE, frame_stack_size |-> Depth,
                             symbol_info |-> None]]_vars

\* a trap entry to a known function pushed the third frame
C24_Witness ==
    /\ call.fn = "step_ij" /\ call.entry.event = "TrapException"
    /\ ret # PanicRet /\ ret.success /\ ret.frame_stack_size = 3
    /\ Len(unwinder.frame_stack) = 3

\* C25: step_uj on an UninferableJump from a `ret`, with a stack on which some
\* frame's range holds the target: the frames above the topmost such frame are
\* popped and returned as closed, the top one first; that frame and those
\* below stay; the depth returned is the number of frames left; no frame is
\* opened.
C25_UnwindToHolder ==
    [][(/\ Calls("step_uj") /\ call'.entry.event = "UninferableJump"
        /\ PrevInsn.mnemonic = "ret" /\ Holders(call'.entry.to) # {}) =>
          LET k == Topmost(Holders(call'.entry.to)) IN
          /\ TablesKept
          /\ unwinder'.frame_stack = SubSeq(Stack, 1, k)
          /\ ret'.success
          /\ ret'.frame_stack_size = k
          /\ ClosedAbove(ret'.closed_frames, k)
          /\ ret'.opened = None]_vars

\* the stack was [A, B, C] with the target in A's range only: C and B were
\* closed, A is left
C25_Witness ==
    /\ call.fn = "step_uj" /\ call.entry.event = "UninferableJump"
    /\ call.entry.from = 10 /\ call.entry.to = 2
    /\ ret # PanicRet /\ ret.success /\ ret.frame_stack_size = 1
    /\ Len(ret.closed_frames) = 2 /\ Len(unwinder.frame_stack) = 1
    /\ ret.closed_frames[1].index # ret.closed_frames[2].index
    /\ unwinder.frame_stack[1] \notin {ret.closed_frames[1].index, ret.closed_frames[2].index}

\* the call unwinds: it comes from a ret or a c.jr ra and the stack has frames
Unwinds ==
    /\ Calls("step_uj") /\ Depth > 0
    /\ \/ PrevInsn.mnemonic = "ret"
       \/ PrevInsn.mnemonic = "c.jr" /\ PrevInsn.op_str = "ra"

\* C26: when the unwind pops every frame (no frame's range holds the target),
\* all previous frames are returned as closed, the top one first; if the
\* target is a known function start that function is pushed and returned as
\* the opened frame and the depth is 1; otherwise the stack is left empty and
\* no frame is opened.
C26_UnwindToEmpty ==
    [][(Unwinds /\ Holders(call'.entry.to) = {}) =>
          /\ TablesKept
          /\ ret'.success
          /\ ClosedAbove(ret'.closed_frames, 0)
          /\ IF Known(call'.entry.to)
             THEN /\ unwinder'.frame_stack = <<Symbols[call'.entry.to].index>>
                  /\ ret'.opened = Symbols[call'.entry.to]
                  /\ ret'.frame_stack_size = 1
             ELSE /\ unwinder'.frame_stack = <<>>
                  /\ ret'.opened = None
                  /\ ret'.frame_stack_size = 0]_vars

\* a c.jr ra closed two frames and opened the function at its target
C26_Witness ==
    /\ call.fn = "step_uj" /\ call.entry.from = 32
    /\ ret # PanicRet /\ ret.success /\ Len(ret.closed_frames) = 2
    /\ ret.opened # None /\ ret.frame_stack_size = 1
    /\ unwinder.frame_stack = <<ret.opened.index>>

\* C27: step_uj on a TrapReturn entry pops exactly the top frame and returns
\* it as the only closed frame, whatever the instruction at entry.arc.from and
\* the target; with an empty stack it returns (false, 0, [], none) and changes
\* nothing.
C27_TrapReturnPopsOne ==
    [][(Calls("step_uj") /\ call'.entry.event = "TrapReturn") =>
          IF Depth > 0
          THEN /\ unwinder'.frame_stack = SubSeq(Stack, 1, Depth - 1)
               /\ ClosedAbove(ret'.closed_frames, Depth - 1)
          ELSE /\ unwinder' = unwinder
               /\ ret' = [success |-> FALSE, frame_stack_size |-> 0,
                          closed_frames |-> <<>>, opened |-> None]]_vars

\* mnemonics that contain "jalr"
JalrForms == {"jalr", "c.jalr"}

\* C28: step_uj on an UninferableJump from a jalr-form instruction is a call
\* through a register: a known target's index is pushed and the depth grows
\* by one; with an unknown target the operation fails.
C28_JalrIsCall ==
    [][(/\ Calls("step_uj") /\ call'.entry.event = "UninferableJump"
        /\ PrevInsn.mnemonic \in JalrForms) =>
          IF Known(call'.entry.to)
          THEN /\ unwinder'.frame_stack = Append(Stack, Symbols[call'.entry.to].index)
               /\ ret'.frame_stack_size = Depth + 1
          ELSE /\ ~ret'.success
               /\ unwinder'.frame_stack = Stack]_vars

\* frames a call reports as pushed and as closed
Pushed(opened) == IF opened = None THEN 0 ELSE 1

\* C29: after every step_ij / step_uj the depth is the depth before plus the
\* frames pushed minus the frames returned as closed, and the depth returned
\* is the length of the frame stack; flush at depth d returns d frames, the
\* top one first, and leaves the stack empty, so a second flush returns none.
C29_DepthAccounting ==
    [][/\ Calls("step_ij") =>
            /\ Len(unwinder'.frame_stack) = Depth + Pushed(ret'.symbol_info)
            /\ ret'.frame_stack_size = Len(unwinder'.frame_stack)
       /\ Calls("step_uj") =>
            /\ Len(unwinder'.frame_stack) =
                   Depth + Pushed(ret'.opened) - Len(ret'.closed_frames)
            /\ ret'.frame_stack_size = Len(unwinder'.frame_stack)
       /\ Calls("flush") =>
            /\ ClosedAbove(ret'.closed_frames, 0)
            /\ unwinder'.frame_stack = <<>>
            /\ flush(unwinder').ret.closed_frames = <<>>]_vars

\* flush at depth 3 returned three frames and emptied the stack
C29_Witness ==
    /\ call.fn = "flush" /\ Len(ret.closed_frames) = 3
    /\ unwinder.frame_stack = <<>>

\* the symbols StackUnwinder::new takes into the table
Taken(sym) == sym.exe /\ sym.loc /\ sym.name \notin DummyNames

\* C30: in the table StackUnwinder::new builds no two function start addresses
\* have the same symbol index, and an address with at least one symbol whose
\* name is not blank has a name that is not blank.
C30_SymbolIndexUnique ==
    call.fn = "new" =>
        /\ \A a, b \in DOMAIN unwinder.func_symbol_map :
              a # b => unwinder.func_symbol_map[a].index # unwinder.func_symbol_map[b].index
        /\ \A i \in 1..Len(call.symbols) :
              (Taken(call.symbols[i]) /\ call.symbols[i].name \notin BlankNames) =>
                 /\ call.symbols[i].addr \in DOMAIN unwinder.func_symbol_map
                 /\ unwinder.func_symbol_map[call.symbols[i].addr].name \notin BlankNames

\* the handling of the packet in hand ends without failure
HandlingEnds ==
    /\ ephase \in {"dispatch", "resolve", "after_until"}
    /\ ephase' \in {"read", "ok"}

\* C31 as claimed: in every mode, at every point between two packets and at
\* the end of a run that did not fail, exactly one entry other than None has
\* been broadcast since the last packet was read (Start for the first packet).
C31_OneEntryPerPacket == ephase \in {"read", "ok"} => sent = 1

\* the entries other than None a packet yields
Yield(p) ==
    IF br_mode \in {"BrPredict", "BrHistory"} /\ p.f_header = "FTb" THEN 1 + p.timestamp
    ELSE IF br_mode \in {"BrPredict", "BrHistory"} /\ p.f_header = "FNt" THEN 2
    ELSE 1

\* C31: the first packet yields the Start entry alone; a packet handled without
\* failure yields exactly one entry other than None, except in the predict
\* modes, where an FTb packet of count k yields BPHit and k branch entries and
\* an FNt packet yields BPMiss and one branch entry.
C31_EntriesPerPacket ==
    [][/\ (ephase = "first" /\ ephase' = "read") => sent' = 1
       /\ HandlingEnds => sent' = Yield(packet)
       /\ (ephase = "read" /\ ephase' = "ok") => sent' = sent]_vars

\* a predicted-hit packet of count 2 has been handled: BPHit and two branches
C31_Witness ==
    /\ mode_is_predict /\ ephase = "read" /\ sent = 3
    /\ LastEntry.event = "NonTakenBranch"

\* C32 as claimed: when step_bb stops, the returned pc is the address of the
\* control-flow instruction and no None entry was broadcast for it.
C32_NoEntryForStop ==
    [][(ephase = "bb" /\ ephase' = "resolve") =>
          (pc' = wpc /\ StopsBB(insn_map[wpc]) /\ ~Broadcasts)]_vars

\* C32: step_bb broadcasts one None entry for every instruction it fetches,
\* the control-flow instruction it stops at included; it stops at the first
\* conditional branch, indirect jump or (BrTarget only) direct jump and returns
\* that address; in the other modes it goes on from a direct jump at
\* pc + signed_offset, and from any other instruction at pc + len.
C32_StepBB ==
    [][(ephase = "bb" /\ (Broadcasts \/ ephase' = "resolve")) =>
          LET insn == insn_map[wpc]
              stops == \/ IsBranch(insn) \/ IsUJ(insn)
                       \/ (br_mode = "BrTarget" /\ IsIJ(insn))
          IN /\ HasInsn(wpc)
             /\ Broadcasts /\ NewEntry = new_insn(wpc)
             /\ IF stops
                THEN ephase' = "resolve" /\ pc' = wpc
                ELSE /\ ephase' = "bb" /\ pc' = pc
                     /\ wpc' = IF IsIJ(insn) THEN JumpTarget(wpc, insn)
                               ELSE wpc + insn.len]_vars

\* outside BrTarget a walk from the direct jump at 12 went through it to 0 and
\* stopped at the branch at 6, whose None entry is the last one broadcast
C32_Witness ==
    /\ br_mode # "BrTarget" /\ ephase = "resolve" /\ pc = 6
    /\ packet_count = 1 /\ tail = 5
    /\ LastEntry = new_insn(6)

\* C33 as claimed: step_uj on an UninferableJump with a non-empty stack runs
\* the unwind whenever the instruction at entry.arc.from is an indirect jump
\* that is not jalr-form (ret, c.jr ra, but also c.jr a5 or jr t0).
C33_AnyIndirectJumpUnwinds ==
    [][(/\ Calls("step_uj") /\ call'.entry.event = "UninferableJump"
        /\ Depth > 0 /\ PrevInsn.mnemonic \notin JalrForms) =>
          /\ unwinder' = Unwind(unwinder, Stack, <<>>, call'.entry.to).u
          /\ ret' = Unwind(unwinder, Stack, <<>>, call'.entry.to).ret]_vars

\* the range the unwinder holds for the function starting at a
RangeOf(a) == unwinder.idx_2_addr_range[Symbols[a].index]
Highest(a) == \A b \in DOMAIN Symbols : b <= a
Lowest(a) == \A b \in DOMAIN Symbols : a <= b
\* the next higher function start
Successor(a, b) ==
    /\ b \in DOMAIN Symbols /\ b > a
    /\ \A c \in DOMAIN Symbols : c > a => b <= c

\* C34 as claimed: every function but the highest has the range [its start,
\* the next higher start), so the ranges are not empty and pairwise disjoint,
\* and the unwinder's test holds for a target exactly when it lies between the
\* two; the highest function has the range (its start, the lowest start).
C34_RangeToNextFunction ==
    call.fn = "new" =>
        \A a \in DOMAIN Symbols :
            IF Highest(a)
            THEN \E b \in DOMAIN Symbols : Lowest(b) /\ RangeOf(a) = <<a, b>>
            ELSE \E b \in DOMAIN Symbols :
                    /\ Successor(a, b)
                    /\ RangeOf(a) = <<a, b>>
                    /\ \A t \in 0..AddrMod :
                          InFrameRange(RangeOf(a)[1], RangeOf(a)[2], t)
                              <=> (a <= t /\ t < b)

\* C35: every enabled consumer holds its reader before the producer thread
\* starts, so nothing is broadcast to fewer readers, and the first entry each
\* consumer takes is the first entry broadcast, Start.
C35_AttachedBeforeStart ==
    /\ ephase # "unspawned" => attached = enabled
    /\ tail > 0 => attached = enabled
    /\ \A c \in Receivers :
          Running(c) /\ rx_head[c] = 1 =>
              last_rx[c].seq = 1 /\ last_rx[c].e.event = "Start"

\* two consumers: the producer has broadcast a second entry, one consumer has
\* taken both, the other holds Start
C35_Witness ==
    /\ enabled = Receivers /\ tail = 2
    /\ rx_head[1] = 1 /\ last_rx[1].e.event = "Start"
    /\ rx_head[2] = 2 /\ last_rx[2].seq = 2

\* the packet in hand is a direct-jump packet (FIj, or CIj in a compressed
\* header) and is being walked or resolved
InJumpPacket == packet.f_header = "FIj" /\ ephase \in {"bb", "resolve"}

\* C36 as claimed: outside BrTarget no InferrableJump entry is ever broadcast,
\* and the handling of a direct-jump packet ends in one way only: a Panic entry
\* and failure.
C36_DirectJumpNeverResolved ==
    [][br_mode # "BrTarget" =>
          /\ Broadcasts => NewEntry.event # "InferrableJump"
          /\ (InJumpPacket /\ ephase' \notin {"bb", "resolve"}) =>
                /\ ephase' = "panicked"
                /\ Broadcasts /\ NewEntry = PanicEntry(pc)]_vars

\* step_bb from address a returns or fails within n further instructions
RECURSIVE WalkEnds(_, _)
WalkEnds(a, n) ==
    IF ~HasInsn(a) THEN TRUE
    ELSE IF StopsBB(insn_map[a]) THEN TRUE
    ELSE IF n = 0 THEN FALSE
    ELSE WalkEnds(NextBB(a, insn_map[a]), n - 1)
\* the same for step_bb_until
RECURSIVE WalkUntilEnds(_, _)
WalkUntilEnds(a, n) ==
    IF ~HasInsn(a) THEN TRUE
    ELSE IF StopsUntil(a, insn_map[a], target_pc) THEN TRUE
    ELSE IF n = 0 THEN FALSE
    ELSE WalkUntilEnds(a + insn_map[a].len, n - 1)
\* a walk that has fetched more instructions than the map holds has been at
\* one address twice and, being deterministic, goes round for ever
InsnCount == Cardinality(DOMAIN insn_map)

\* C37 as claimed: from every pc a walk is at, in every mode, step_bb and
\* step_bb_until return or fail after finitely many instructions.
C37_WalkTerminates ==
    /\ ephase = "bb" => WalkEnds(wpc, InsnCount)
    /\ ephase = "until" => WalkUntilEnds(wpc, InsnCount)

\* the entry broadcast before the last one
EntryBeforeLast == ring[(tail - 2) % Slots].e

\* C38: in BrTarget every None entry starts where the entry broadcast just
\* before it ends: its from is that entry's to, or, directly after Start, the
\* from of Start.
C38_ConnectedPath ==
    [][(Broadcasts /\ br_mode = "BrTarget" /\ NewEntry.event = "None") =>
          /\ tail > 0
          /\ LastEntry.event \in {"Start", "None", "TrapException", "TrapInterrupt",
                                  "TrapReturn", "TakenBranch", "NonTakenBranch",
                                  "InferrableJump", "UninferableJump"}
          /\ NewEntry.from = IF LastEntry.event = "Start" THEN LastEntry.from
                             ELSE LastEntry.to]_vars

\* the None entry of the instruction a direct jump led to, then the one of the
\* instruction after it
C38_Witness ==
    /\ br_mode = "BrTarget" /\ tail >= 5
    /\ LastEntry.event = "None" /\ EntryBeforeLast.event = "None"
    /\ ring[(tail - 3) % Slots].e.event = "InferrableJump"
    /\ EntryBeforeLast.from = ring[(tail - 3) % Slots].e.to
    /\ LastEntry.from = EntryBeforeLast.to

\* C39: in StackTxtReceiver and AtomicReceiver, after any sequence of entries,
\* call_stack is as long as the frame stack of the receiver's unwinder and its
\* i-th element has the symbol index of the i-th frame.
C39_CallStackMirrors ==
    (consumer \in {"stack_txt", "atomic"} /\ cstate # "panicked") =>
        /\ Len(call_stack) = Len(unwinder.frame_stack)
        /\ \A i \in 1..Len(call_stack) :
              call_stack[i].index = unwinder.frame_stack[i]

\* four entries left the frames of f and h: both stacks hold them, in order
C39_Witness ==
    /\ consumer = "stack_txt" /\ received = 4 /\ cstate = "flushed"
    /\ Len(call_stack) = 2
    /\ call_stack[1].name = "f" /\ call_stack[2].name = "h"
    /\ unwinder.frame_stack = <<call_stack[1].index, call_stack[2].index>>
    /\ call_stack[1].index # call_stack[2].index

\* the frames a sequence of profile events leaves open, the innermost last,
\* and whether every C closed the innermost open frame
RECURSIVE Nesting(_, _)
Nesting(events, open) ==
    IF events = <<>> THEN [ok |-> TRUE, open |-> open]
    ELSE IF Head(events).type = "O"
    THEN Nesting(Tail(events), Append(open, Head(events).frame))
    ELSE IF open # <<>> /\ open[Len(open)] = Head(events).frame
    THEN Nesting(Tail(events), SubSeq(open, 1, Len(open) - 1))
    ELSE [ok |-> FALSE, open |-> open]
CountOf(events, type) == Cardinality({i \in 1..Len(events) : events[i].type = type})

\* C40: the O and C events of the speedscope receiver are well nested: every C
\* names the frame of the latest O not yet closed; after flush no frame is
\* open, so there are as many C events as O events.
C40_WellNested ==
    (consumer = "speedscope" /\ cstate # "panicked") =>
        /\ Nesting(profile_entries, <<>>).ok
        /\ cstate = "flushed" =>
              /\ Nesting(profile_entries, <<>>).open = <<>>
              /\ CountOf(profile_entries, "C") = CountOf(profile_entries, "O")

\* O O C O from four entries, then flush closed the two frames left open
C40_Witness ==
    /\ consumer = "speedscope" /\ cstate = "flushed" /\ received = 4
    /\ Len(profile_entries) = 6
    /\ profile_entries[2].type = "O" /\ profile_entries[3].type = "C"
    /\ profile_entries[4].type = "O" /\ profile_entries[5].type = "C"
    /\ profile_entries[5].frame # profile_entries[6].frame
====
